---- MODULE Spec2Model ----
(***************************************************************************)
(* A model of @tokentop/plugin-sdk: the plugin factories of                *)
(* src/helpers/create.ts, the version helpers of src/helpers/version.ts,   *)
(* the credential helpers of src/helpers/auth.ts and the mocks of          *)
(* src/testing/harness.ts.                                                 *)
(*                                                                         *)
(* JavaScript values are tagged records (Undefined, Bool, Num, Str, Ref), a *)
(* string is a sequence of one-character strings, an object is a function  *)
(* from its own property names to values, and the heap is a sequence of    *)
(* objects addressed by Ref.  An Error is the sequence of the pieces its   *)
(* message is concatenated from.  hist is the record of the calls made on  *)
(* the mocks, each with its result.                                        *)
(***************************************************************************)
EXTENDS Integers, Sequences, FiniteSets, TLC

VARIABLES heap, call, pc, ret, now, hist

vars == <<heap, call, pc, ret, now, hist>>

(***************************************************************************)
(* Bounds of the explored inputs.                                          *)
(***************************************************************************)
MaxIdLen == 3
MaxVerLen == 6
MaxApiVersion == 4
MaxNow == 3
MaxBuffer == 3
MaxCalls == 3
MaxContextCalls == 2
MaxTextLen == 4

(***************************************************************************)
(* JavaScript values.                                                      *)
(***************************************************************************)
Undefined == [undef |-> TRUE]

Num(n) == [num |-> n]

Str(s) == [str |-> s]

Ref(r) == [ref |-> r]

Bool(b) == [bool |-> b]

Null == [null |-> TRUE]

\* A function object, by the name it was declared with.
Fn(name) == [fn |-> name]

TypeOf(v) ==
    IF "undef" \in DOMAIN v THEN "undefined"
    ELSE IF "bool" \in DOMAIN v THEN "boolean"
    ELSE IF "num" \in DOMAIN v THEN "number"
    ELSE IF "str" \in DOMAIN v THEN "string"
    ELSE IF "fn" \in DOMAIN v THEN "function"
    ELSE "object"

\* ToBoolean(v) = false: undefined, null, false, 0 and the empty string.
Falsy(v) ==
    \/ TypeOf(v) = "undefined"
    \/ v = Null
    \/ TypeOf(v) = "boolean" /\ ~v.bool
    \/ TypeOf(v) = "number" /\ v.num = 0
    \/ TypeOf(v) = "string" /\ v.str = <<>>

\* v is undefined or null: what ?? and ?. test.
Nullish(v) == TypeOf(v) = "undefined" \/ v = Null

\* a === b
StrictEquals(a, b) == TypeOf(a) = TypeOf(b) /\ a = b

\* obj.key: undefined when obj has no such property.
Get(obj, key) == IF key \in DOMAIN obj THEN obj[key] ELSE Undefined

LowerChars ==
    {"a", "b", "c", "d", "e", "f", "g", "h", "i", "j", "k", "l", "m",
     "n", "o", "p", "q", "r", "s", "t", "u", "v", "w", "x", "y", "z"}

DigitChars == {"0", "1", "2", "3", "4", "5", "6", "7", "8", "9"}

DigitOf(d) ==
    CASE d = 0 -> "0" [] d = 1 -> "1" [] d = 2 -> "2" [] d = 3 -> "3"
      [] d = 4 -> "4" [] d = 5 -> "5" [] d = 6 -> "6" [] d = 7 -> "7"
      [] d = 8 -> "8" [] d = 9 -> "9"

RECURSIVE NatChars(_)
NatChars(n) == IF n < 10 THEN <<DigitOf(n)>> ELSE Append(NatChars(n \div 10), DigitOf(n % 10))

\* String(n) for an integer n, as characters.
NumChars(n) == IF n < 0 THEN <<"-">> \o NatChars(-n) ELSE NatChars(n)

\* String(v), as the argument coercion of RegExp.prototype.test does it.
ToChars(v) ==
    CASE TypeOf(v) = "string" -> v.str
      [] TypeOf(v) = "number" -> NumChars(v.num)
      [] OTHER -> <<"u", "n", "d", "e", "f", "i", "n", "e", "d">>

RECURSIVE Join(_)
\* The characters of s as one piece of message text.
Join(s) == IF s = <<>> THEN "" ELSE Head(s) \o Join(Tail(s))

(***************************************************************************)
(* The two regular expressions of validateBase, run from the first         *)
(* character on as the matcher runs them.                                  *)
(***************************************************************************)
RECURSIVE KebabRest(_, _)
\* [a-z0-9-]*$ from position i.
KebabRest(s, i) ==
    IF i > Len(s) THEN TRUE
    ELSE IF s[i] \in LowerChars \cup DigitChars \cup {"-"} THEN KebabRest(s, i + 1)
    ELSE FALSE

\* Mutant of KebabTest: the pattern without its end anchor, /^[a-z][a-z0-9-]*/.
KebabTest_NoEndAnchor(s) == Len(s) >= 1 /\ s[1] \in LowerChars

\* /^[a-z][a-z0-9-]*$/.test(s)
KebabTest(s) == Len(s) >= 1 /\ s[1] \in LowerChars /\ KebabRest(s, 2)

RECURSIVE SkipDigits(_, _)
\* The position after the longest run of digits that starts at i.
SkipDigits(s, i) ==
    IF i <= Len(s) /\ s[i] \in DigitChars THEN SkipDigits(s, i + 1) ELSE i

\* \d+ at position i: the position after it, or 0 when no digit is there.
DigitsPlus(s, i) == IF SkipDigits(s, i) > i THEN SkipDigits(s, i) ELSE 0

\* \. at position i: the position after it, or 0.
Dot(s, i) == IF i >= 1 /\ i <= Len(s) /\ s[i] = "." THEN i + 1 ELSE 0

\* Mutant of SemverTest: the pattern anchored at both ends, /^\d+\.\d+\.\d+$/.
SemverTest_FullMatch(s) ==
    LET p1 == DigitsPlus(s, 1)
        p2 == IF p1 = 0 THEN 0 ELSE Dot(s, p1)
        p3 == IF p2 = 0 THEN 0 ELSE DigitsPlus(s, p2)
        p4 == IF p3 = 0 THEN 0 ELSE Dot(s, p3)
        p5 == IF p4 = 0 THEN 0 ELSE DigitsPlus(s, p4)
    IN  p5 = Len(s) + 1

\* /^\d+\.\d+\.\d+/.test(s): anchored at the start only.
SemverTest(s) ==
    LET p1 == DigitsPlus(s, 1)
        p2 == IF p1 = 0 THEN 0 ELSE Dot(s, p1)
        p3 == IF p2 = 0 THEN 0 ELSE DigitsPlus(s, p2)
        p4 == IF p3 = 0 THEN 0 ELSE Dot(s, p3)
        p5 == IF p4 = 0 THEN 0 ELSE DigitsPlus(s, p4)
    IN  p5 # 0

(***************************************************************************)
(* Results of a call.                                                      *)
(***************************************************************************)
Throw(message) == [threw |-> TRUE, message |-> message]

Return(value) == [threw |-> FALSE, value |-> value]

CURRENT_API_VERSION == 2

IdEmptyError == <<"Plugin must have a non-empty string \"", "id", "\"">>

KebabError(id) ==
    <<"Plugin ", "id", " \"", Join(id), "\" must be kebab-case (lowercase letters, numbers, hyphens)">>

NameEmptyError == <<"Plugin must have a non-empty string \"", "name", "\"">>

SemverError == <<"Plugin must have a valid semver ", "version", " (e.g. \"1.0.0\")">>

\* Mutant of validateBase: the name rule left out.
validateBase_NoNameRule(plugin) ==
    LET id == Get(plugin, "id")
        version == Get(plugin, "version")
    IN  IF Falsy(id) \/ TypeOf(id) # "string" THEN Throw(IdEmptyError)
        ELSE IF ~KebabTest(ToChars(id)) THEN Throw(KebabError(ToChars(id)))
        ELSE IF Falsy(version) \/ ~SemverTest(ToChars(version)) THEN Throw(SemverError)
        ELSE Return(Undefined)

\* Mutant of validateBase: the version rule checked before the name rule.
validateBase_VersionFirst(plugin) ==
    LET id == Get(plugin, "id")
        name == Get(plugin, "name")
        version == Get(plugin, "version")
    IN  IF Falsy(id) \/ TypeOf(id) # "string" THEN Throw(IdEmptyError)
        ELSE IF ~KebabTest(ToChars(id)) THEN Throw(KebabError(ToChars(id)))
        ELSE IF Falsy(version) \/ ~SemverTest(ToChars(version)) THEN Throw(SemverError)
        ELSE IF Falsy(name) \/ TypeOf(name) # "string" THEN Throw(NameEmptyError)
        ELSE Return(Undefined)

validateBase(plugin) ==
    LET id == Get(plugin, "id")
        name == Get(plugin, "name")
        version == Get(plugin, "version")
    IN  IF Falsy(id) \/ TypeOf(id) # "string" THEN Throw(IdEmptyError)
        ELSE IF ~KebabTest(ToChars(id)) THEN Throw(KebabError(ToChars(id)))
        ELSE IF Falsy(name) \/ TypeOf(name) # "string" THEN Throw(NameEmptyError)
        ELSE IF Falsy(version) \/ ~SemverTest(ToChars(version)) THEN Throw(SemverError)
        ELSE Return(Undefined)

\* { ...obj, key: value }: a new object with obj's own properties and key set.
Spread(obj, key, value) ==
    [k \in DOMAIN obj \cup {key} |-> IF k = key THEN value ELSE obj[k]]

ProviderType == <<"p", "r", "o", "v", "i", "d", "e", "r">>

AgentType == <<"a", "g", "e", "n", "t">>

ThemeType == <<"t", "h", "e", "m", "e">>

NotificationType == <<"n", "o", "t", "i", "f", "i", "c", "a", "t", "i", "o", "n">>

\* A factory's outcome: what it returns or throws, and the heap it leaves.
Outcome(r, h) == [ret |-> r, heap |-> h]

\* Mutant of createProviderPlugin: apiVersion written to the definition itself,
\* Object.assign(def, { apiVersion }), which is then returned.
createProviderPlugin_InPlace(h, def) ==
    LET v == validateBase(h[def.ref])
    IN  IF v.threw THEN Outcome(v, h)
        ELSE IF ~StrictEquals(Get(h[def.ref], "type"), Str(ProviderType))
        THEN Outcome(Throw(<<"createProviderPlugin requires ", "type", ": \"provider\"">>), h)
        ELSE Outcome(Return(def),
                     [h EXCEPT ![def.ref] =
                         Spread(h[def.ref], "apiVersion", Num(CURRENT_API_VERSION))])

createProviderPlugin(h, def) ==
    LET v == validateBase(h[def.ref])
    IN  IF v.threw THEN Outcome(v, h)
        ELSE IF ~StrictEquals(Get(h[def.ref], "type"), Str(ProviderType))
        THEN Outcome(Throw(<<"createProviderPlugin requires ", "type", ": \"provider\"">>), h)
        ELSE Outcome(Return(Ref(Len(h) + 1)),
                     Append(h, Spread(h[def.ref], "apiVersion", Num(CURRENT_API_VERSION))))

\* Mutant of createAgentPlugin: the type discriminator not checked.
createAgentPlugin_NoTypeCheck(h, def) ==
    LET v == validateBase(h[def.ref])
    IN  IF v.threw THEN Outcome(v, h)
        ELSE Outcome(Return(Ref(Len(h) + 1)),
                     Append(h, Spread(h[def.ref], "apiVersion", Num(CURRENT_API_VERSION))))

\* Mutant of createAgentPlugin: the spread written last, so that the
\* definition's apiVersion wins.
createAgentPlugin_SpreadLast(h, def) ==
    LET v == validateBase(h[def.ref])
    IN  IF v.threw THEN Outcome(v, h)
        ELSE IF ~StrictEquals(Get(h[def.ref], "type"), Str(AgentType))
        THEN Outcome(Throw(<<"createAgentPlugin requires ", "type", ": \"agent\"">>), h)
        ELSE Outcome(Return(Ref(Len(h) + 1)),
                     Append(h, Spread(h[def.ref], "apiVersion",
                                      IF "apiVersion" \in DOMAIN h[def.ref]
                                      THEN h[def.ref]["apiVersion"]
                                      ELSE Num(CURRENT_API_VERSION))))

createAgentPlugin(h, def) ==
    LET v == validateBase(h[def.ref])
    IN  IF v.threw THEN Outcome(v, h)
        ELSE IF ~StrictEquals(Get(h[def.ref], "type"), Str(AgentType))
        THEN Outcome(Throw(<<"createAgentPlugin requires ", "type", ": \"agent\"">>), h)
        ELSE Outcome(Return(Ref(Len(h) + 1)),
                     Append(h, Spread(h[def.ref], "apiVersion", Num(CURRENT_API_VERSION))))

\* Mutant of createThemePlugin: the spread written last,
\* { apiVersion: CURRENT_API_VERSION, ...def }, so that the definition's value wins.
createThemePlugin_SpreadLast(h, def) ==
    LET v == validateBase(h[def.ref])
    IN  IF v.threw THEN Outcome(v, h)
        ELSE IF ~StrictEquals(Get(h[def.ref], "type"), Str(ThemeType))
        THEN Outcome(Throw(<<"createThemePlugin requires ", "type", ": \"theme\"">>), h)
        ELSE Outcome(Return(Ref(Len(h) + 1)),
                     Append(h, Spread(h[def.ref], "apiVersion",
                                      IF "apiVersion" \in DOMAIN h[def.ref]
                                      THEN h[def.ref]["apiVersion"]
                                      ELSE Num(CURRENT_API_VERSION))))

createThemePlugin(h, def) ==
    LET v == validateBase(h[def.ref])
    IN  IF v.threw THEN Outcome(v, h)
        ELSE IF ~StrictEquals(Get(h[def.ref], "type"), Str(ThemeType))
        THEN Outcome(Throw(<<"createThemePlugin requires ", "type", ": \"theme\"">>), h)
        ELSE Outcome(Return(Ref(Len(h) + 1)),
                     Append(h, Spread(h[def.ref], "apiVersion", Num(CURRENT_API_VERSION))))

\* Mutant of createNotificationPlugin: the discriminator of the theme factory
\* left in, def.type !== 'theme'.
createNotificationPlugin_ThemeType(h, def) ==
    LET v == validateBase(h[def.ref])
    IN  IF v.threw THEN Outcome(v, h)
        ELSE IF ~StrictEquals(Get(h[def.ref], "type"), Str(ThemeType))
        THEN Outcome(Throw(<<"createNotificationPlugin requires ", "type", ": \"notification\"">>), h)
        ELSE Outcome(Return(Ref(Len(h) + 1)),
                     Append(h, Spread(h[def.ref], "apiVersion", Num(CURRENT_API_VERSION))))

createNotificationPlugin(h, def) ==
    LET v == validateBase(h[def.ref])
    IN  IF v.threw THEN Outcome(v, h)
        ELSE IF ~StrictEquals(Get(h[def.ref], "type"), Str(NotificationType))
        THEN Outcome(Throw(<<"createNotificationPlugin requires ", "type", ": \"notification\"">>), h)
        ELSE Outcome(Return(Ref(Len(h) + 1)),
                     Append(h, Spread(h[def.ref], "apiVersion", Num(CURRENT_API_VERSION))))

(***************************************************************************)
(* The definitions handed to the factories.  Every id up to MaxIdLen       *)
(* characters and every version up to MaxVerLen characters is tried with   *)
(* the other fields valid; the sample values of all fields are tried in    *)
(* every combination.                                                      *)
(***************************************************************************)
StringsUpTo(chars, n) == UNION {[1..k -> chars] : k \in 0..n}

IdChars == {"a", "1", "-", "_", "A"}

VersionChars == {"1", ".", "g"}

AllIds == {Str(s) : s \in StringsUpTo(IdChars, MaxIdLen)}

AllVersions == {Str(s) : s \in StringsUpTo(VersionChars, MaxVerLen)}

SampleIds == {Undefined, Num(7), Str(<<>>), Str(<<"a", "-", "1">>), Str(<<"A">>)}

SampleNames == {Undefined, Num(7), Str(<<>>), Str(<<"N">>)}

SampleVersions ==
    {Undefined, Num(1), Str(<<>>), Str(<<"1", ".", "0", ".", "0">>), Str(<<"v", "1">>)}

OtherType == <<"o", "t", "h", "e", "r">>

PluginTypes == {Str(ProviderType), Str(AgentType), Str(ThemeType), Str(NotificationType)}

SampleTypes == PluginTypes \cup {Undefined, Str(OtherType)}

\* apiVersion as the caller may have set it: absent, older, current, newer, not a number.
SampleApiVersions == {Undefined, Num(1), Num(2), Num(3), Str(<<"2">>)}

\* permissions: {}
PermissionsObject == <<>>

\* A property whose value is undefined is left out of the literal.
Field(key, value) == IF value = Undefined THEN <<>> ELSE key :> value

MkDef(id, name, version, type, apiVersion) ==
    Field("id", id) @@ Field("name", name) @@ Field("version", version)
        @@ Field("type", type) @@ Field("apiVersion", apiVersion)
        @@ ("permissions" :> Ref(1))

ValidName == Str(<<"N">>)

ValidVersion == Str(<<"1", ".", "0", ".", "0">>)

ValidId == Str(<<"a", "-", "1">>)

Defs ==
    {MkDef(i, n, v, t, a) : i \in SampleIds, n \in SampleNames, v \in SampleVersions,
                            t \in SampleTypes, a \in SampleApiVersions}
    \cup {MkDef(i, ValidName, ValidVersion, t, Undefined) :
              i \in AllIds, t \in {Str(ProviderType), Str(ThemeType)}}
    \cup {MkDef(ValidId, ValidName, v, t, Undefined) :
              v \in AllVersions, t \in {Str(AgentType), Str(NotificationType)}}

Factories ==
    {"createProviderPlugin", "createAgentPlugin", "createThemePlugin",
     "createNotificationPlugin"}

(***************************************************************************)
(* The factories: one call of one factory on one definition.               *)
(***************************************************************************)
InitCreate ==
    \E d \in Defs, fn \in Factories :
        /\ heap = <<PermissionsObject, d>>
        /\ call = [fn |-> fn, def |-> Ref(2)]
        /\ pc = "call"
        /\ ret = Undefined
        /\ now = 0
        /\ hist = <<>>

Finish(o) ==
    /\ heap' = o.heap
    /\ ret' = o.ret
    /\ pc' = "done"
    /\ UNCHANGED <<call, now, hist>>

CreateProviderPlugin ==
    /\ pc = "call"
    /\ call.fn = "createProviderPlugin"
    /\ Finish(createProviderPlugin(heap, call.def))

CreateAgentPlugin ==
    /\ pc = "call"
    /\ call.fn = "createAgentPlugin"
    /\ Finish(createAgentPlugin(heap, call.def))

CreateThemePlugin ==
    /\ pc = "call"
    /\ call.fn = "createThemePlugin"
    /\ Finish(createThemePlugin(heap, call.def))

CreateNotificationPlugin ==
    /\ pc = "call"
    /\ call.fn = "createNotificationPlugin"
    /\ Finish(createNotificationPlugin(heap, call.def))

NextCreate ==
    \/ CreateProviderPlugin
    \/ CreateAgentPlugin
    \/ CreateThemePlugin
    \/ CreateNotificationPlugin

SpecCreate == InitCreate /\ [][NextCreate]_vars

(***************************************************************************)
(* Properties of the factories.                                            *)
(***************************************************************************)
\* The definition object the factory was called on.
Def == heap[call.def.ref]

\* The kind a factory is for, as its name says it.
KindOf(fn) ==
    CASE fn = "createProviderPlugin" -> "provider"
      [] fn = "createAgentPlugin" -> "agent"
      [] fn = "createThemePlugin" -> "theme"
      [] fn = "createNotificationPlugin" -> "notification"

Returned == pc = "done" /\ ~ret.threw

Threw(message) == pc = "done" /\ ret.threw /\ ret.message = message

UpperChars ==
    {"A", "B", "C", "D", "E", "F", "G", "H", "I", "J", "K", "L", "M",
     "N", "O", "P", "Q", "R", "S", "T", "U", "V", "W", "X", "Y", "Z"}

\* s matches ^[a-z][a-z0-9-]*$, said of its characters.
IsKebab(s) ==
    /\ Len(s) >= 1
    /\ s[1] \in LowerChars
    /\ \A i \in 2..Len(s) : s[i] \in LowerChars \cup DigitChars \cup {"-"}

AllDigits(s, from, to) == from <= to /\ \A i \in from..to : s[i] \in DigitChars

\* s begins with digits '.' digits '.' digits.
BeginsWithSemver(s) ==
    \E a, b, c \in 1..Len(s) :
        /\ a + 1 < b /\ b + 1 < c
        /\ AllDigits(s, 1, a)
        /\ s[a + 1] = "."
        /\ AllDigits(s, a + 2, b)
        /\ s[b + 1] = "."
        /\ AllDigits(s, b + 2, c)

IdOk(d) == TypeOf(Get(d, "id")) = "string" /\ IsKebab(Get(d, "id").str)

NameOk(d) == TypeOf(Get(d, "name")) = "string" /\ Get(d, "name").str # <<>>

VersionOk(d) == ~Falsy(Get(d, "version")) /\ BeginsWithSemver(ToChars(Get(d, "version")))

TypeOk(d, fn) ==
    TypeOf(Get(d, "type")) = "string" /\ Join(Get(d, "type").str) = KindOf(fn)

\* C1: whatever apiVersion the accepted definition carried (none, an older, a
\* newer or a non-number one), the object each factory returns has apiVersion
\* equal to CURRENT_API_VERSION.
C1_StampsApiVersion ==
    Returned =>
        /\ "apiVersion" \in DOMAIN heap[ret.value.ref]
        /\ heap[ret.value.ref]["apiVersion"] = Num(CURRENT_API_VERSION)

C1_Witness ==
    /\ Returned
    /\ call.fn = "createThemePlugin"
    /\ "apiVersion" \in DOMAIN Def
    /\ Def["apiVersion"] = Num(CURRENT_API_VERSION + 1)

\* C2: with name, version and type valid, an id matching ^[a-z][a-z0-9-]*$ is
\* accepted; a non-empty id with an uppercase letter, a leading digit or hyphen,
\* or an underscore is rejected with the kebab-case error; the empty id is
\* rejected with the non-empty string "id" error.
C2_IdRule ==
    (pc = "done" /\ NameOk(Def) /\ VersionOk(Def) /\ TypeOk(Def, call.fn)
        /\ TypeOf(Get(Def, "id")) = "string") =>
        LET id == Get(Def, "id").str
        IN  /\ IsKebab(id) => Returned
            /\ (/\ id # <<>>
                /\ \/ \E i \in 1..Len(id) : id[i] \in UpperChars \cup {"_"}
                   \/ id[1] \in DigitChars \cup {"-"})
               => Threw(<<"Plugin ", "id", " \"", Join(id),
                          "\" must be kebab-case (lowercase letters, numbers, hyphens)">>)
            /\ id = <<>> => Threw(<<"Plugin must have a non-empty string \"", "id", "\"">>)

C2_Witness ==
    /\ Threw(KebabError(<<"a", "_">>))
    /\ NameOk(Def) /\ VersionOk(Def) /\ TypeOk(Def, call.fn)

\* C3: on a definition that passes base validation, create<Kind>Plugin throws
\* 'create<Kind>Plugin requires type: "<kind>"' exactly when def.type is not
\* that kind.
C3_TypeDiscriminator ==
    (pc = "done" /\ IdOk(Def) /\ NameOk(Def) /\ VersionOk(Def)) =>
        (Threw(<<call.fn \o " requires ", "type", ": \"" \o KindOf(call.fn) \o "\"">>)
            <=> ~TypeOk(Def, call.fn))

C3_Witness ==
    /\ Threw(<<"createAgentPlugin requires ", "type", ": \"agent\"">>)
    /\ Get(Def, "type") = Str(ProviderType)

\* C4: the version check is a prefix match: once id and name pass, an empty
\* version or one not beginning with digits.digits.digits is rejected with the
\* semver error, and a version beginning with it passes whatever follows.
C4_VersionPrefix ==
    (pc = "done" /\ IdOk(Def) /\ NameOk(Def) /\ TypeOf(Get(Def, "version")) = "string") =>
        LET version == Get(Def, "version").str
        IN  /\ ~BeginsWithSemver(version)
               => Threw(<<"Plugin must have a valid semver ", "version", " (e.g. \"1.0.0\")">>)
            /\ BeginsWithSemver(version) => (Returned <=> TypeOk(Def, call.fn))

C4_Witness ==
    /\ Returned
    /\ Get(Def, "version") = Str(<<"1", ".", "1", ".", "1", "g">>)

\* C5: a factory returns normally exactly when id is a non-empty kebab-case
\* string, name a non-empty string, version non-empty with a three-group numeric
\* prefix and type the factory's kind; otherwise it throws.
C5_AcceptsIffAllRules ==
    pc = "done" =>
        /\ ~ret.threw <=>
              (IdOk(Def) /\ NameOk(Def) /\ VersionOk(Def) /\ TypeOk(Def, call.fn))
        /\ ret.threw => heap = <<PermissionsObject, Def>>

C5_Witness ==
    /\ pc = "done"
    /\ ret.threw
    /\ IdOk(Def) /\ VersionOk(Def) /\ TypeOk(Def, call.fn)
    /\ Get(Def, "name") = Str(<<>>)

\* C6: a factory call changes no existing object, the input definition included;
\* a successful call returns a new object that has the input's fields with the
\* same values, and apiVersion.
C6_ShallowCopy ==
    [][(pc = "call" /\ pc' = "done") =>
          /\ \A r \in DOMAIN heap : r \in DOMAIN heap' /\ heap'[r] = heap[r]
          /\ ~ret'.threw =>
                /\ ret'.value.ref \notin DOMAIN heap
                /\ ret'.value.ref \in DOMAIN heap'
                /\ DOMAIN heap'[ret'.value.ref] = DOMAIN Def \cup {"apiVersion"}
                /\ \A k \in DOMAIN Def \ {"apiVersion"} :
                      heap'[ret'.value.ref][k] = Def[k]]_vars

C6_Witness ==
    /\ Returned
    /\ call.fn = "createProviderPlugin"
    /\ ret.value # call.def
    /\ "apiVersion" \notin DOMAIN Def
    /\ heap[ret.value.ref]["permissions"] = Def["permissions"]

(***************************************************************************)
(* src/helpers/version.ts                                                  *)
(***************************************************************************)
\* Mutant of isCompatible: newer versions tolerated, pluginApiVersion >= CURRENT_API_VERSION.
isCompatible_AtLeast(pluginApiVersion) ==
    Bool(pluginApiVersion.num >= CURRENT_API_VERSION)

isCompatible(pluginApiVersion) ==
    Bool(StrictEquals(pluginApiVersion, Num(CURRENT_API_VERSION)))

\* Mutant of assertCompatible: older versions let through.
assertCompatible_OlderPasses(pluginId, pluginApiVersion) ==
    IF pluginApiVersion.num > CURRENT_API_VERSION
    THEN Throw(<<"Plugin \"", Join(ToChars(pluginId)), "\" requires API version ",
                 Join(ToChars(pluginApiVersion)), ", ",
                 "but this SDK supports version ", Join(NumChars(CURRENT_API_VERSION)), ". ",
                 "Update tokentop to use this plugin.">>)
    ELSE Return(Undefined)

\* Mutant of assertCompatible: the two directives exchanged.
assertCompatible_Swapped(pluginId, pluginApiVersion) ==
    IF ~isCompatible(pluginApiVersion).bool
    THEN Throw(<<"Plugin \"", Join(ToChars(pluginId)), "\" requires API version ",
                 Join(ToChars(pluginApiVersion)), ", ",
                 "but this SDK supports version ", Join(NumChars(CURRENT_API_VERSION)), ". ",
                 IF pluginApiVersion.num > CURRENT_API_VERSION
                 THEN "Update the plugin to the latest SDK."
                 ELSE "Update tokentop to use this plugin.">>)
    ELSE Return(Undefined)

assertCompatible(pluginId, pluginApiVersion) ==
    IF ~isCompatible(pluginApiVersion).bool
    THEN Throw(<<"Plugin \"", Join(ToChars(pluginId)), "\" requires API version ",
                 Join(ToChars(pluginApiVersion)), ", ",
                 "but this SDK supports version ", Join(NumChars(CURRENT_API_VERSION)), ". ",
                 IF pluginApiVersion.num > CURRENT_API_VERSION
                 THEN "Update tokentop to use this plugin."
                 ELSE "Update the plugin to the latest SDK.">>)
    ELSE Return(Undefined)

\* The declared versions tried: older, current and newer ones.
ApiVersions == {Num(v) : v \in -1..MaxApiVersion}

InitVersion ==
    /\ heap = <<>>
    /\ pc = "call"
    /\ ret = Undefined
    /\ now = 0
    /\ hist = <<>>
    /\ \/ \E v \in ApiVersions : call = [fn |-> "isCompatible", pluginApiVersion |-> v]
       \/ \E id \in AllIds, v \in ApiVersions :
              call = [fn |-> "assertCompatible", pluginId |-> id, pluginApiVersion |-> v]

IsCompatible ==
    /\ pc = "call"
    /\ call.fn = "isCompatible"
    /\ ret' = Return(isCompatible(call.pluginApiVersion))
    /\ pc' = "done"
    /\ UNCHANGED <<heap, call, now, hist>>

AssertCompatible ==
    /\ pc = "call"
    /\ call.fn = "assertCompatible"
    /\ ret' = assertCompatible(call.pluginId, call.pluginApiVersion)
    /\ pc' = "done"
    /\ UNCHANGED <<heap, call, now, hist>>

NextVersion ==
    \/ IsCompatible
    \/ AssertCompatible

SpecVersion == InitVersion /\ [][NextVersion]_vars

\* C7: isCompatible(v) is true exactly when v is CURRENT_API_VERSION: false for
\* the version before it, the version after it and every other integer.
C7_ExactVersion ==
    (pc = "done" /\ call.fn = "isCompatible") =>
        ret = Return(Bool(call.pluginApiVersion.num = CURRENT_API_VERSION))

C7_Witness ==
    /\ pc = "done"
    /\ call.fn = "isCompatible"
    /\ call.pluginApiVersion = Num(CURRENT_API_VERSION + 1)
    /\ ret = Return(Bool(FALSE))

\* C8: assertCompatible(pluginId, v) throws exactly when isCompatible(v) is
\* false; the message then holds the plugin id, v and CURRENT_API_VERSION; on a
\* compatible v it returns and changes nothing.
C8_AssertThrowsIffIncompatible ==
    (pc = "done" /\ call.fn = "assertCompatible") =>
        /\ ret.threw <=> isCompatible(call.pluginApiVersion) = Bool(FALSE)
        /\ ret.threw <=> call.pluginApiVersion.num # CURRENT_API_VERSION
        /\ ret.threw =>
              /\ ret.message[2] = Join(call.pluginId.str)
              /\ ret.message[4] = ToString(call.pluginApiVersion.num)
              /\ ret.message[7] = ToString(CURRENT_API_VERSION)
        /\ ~ret.threw => ret = Return(Undefined)
        /\ heap = <<>>

C8_Witness ==
    /\ pc = "done"
    /\ call.fn = "assertCompatible"
    /\ call.pluginApiVersion = Num(CURRENT_API_VERSION - 1)
    /\ call.pluginId = Str(<<"a", "-", "1">>)
    /\ ret.threw
    /\ ret.message[2] = "a-1"

\* C9: the message of assertCompatible tells to update the plugin when the
\* declared version is lower than CURRENT_API_VERSION and to update tokentop
\* when it is higher, never the other way round.
C9_Directive ==
    (pc = "done" /\ call.fn = "assertCompatible" /\ ret.threw) =>
        LET v == call.pluginApiVersion.num
            directive == ret.message[Len(ret.message)]
        IN  /\ v < CURRENT_API_VERSION => directive = "Update the plugin to the latest SDK."
            /\ v > CURRENT_API_VERSION => directive = "Update tokentop to use this plugin."

C9_Witness ==
    /\ pc = "done"
    /\ call.fn = "assertCompatible"
    /\ call.pluginApiVersion = Num(CURRENT_API_VERSION + 1)
    /\ ret.threw
    /\ ret.message[Len(ret.message)] = "Update tokentop to use this plugin."

(***************************************************************************)
(* src/helpers/auth.ts: the credential constructors.                       *)
(***************************************************************************)
EnvSource == <<"e", "n", "v">>

OpencodeSource == <<"o", "p", "e", "n", "c", "o", "d", "e">>

ExternalSource == <<"e", "x", "t", "e", "r", "n", "a", "l">>

ConfigSource == <<"c", "o", "n", "f", "i", "g">>

\* Mutant of apiKeyCredential: the default source of oauthCredential, 'external'.
apiKeyCredential_DefaultExternal(h, key, source) ==
    LET src == IF source = Undefined THEN Str(ExternalSource) ELSE source
    IN  Outcome(Return(Ref(Len(h) + 1)), Append(h, [apiKey |-> key, source |-> src]))

apiKeyCredential(h, key, source) ==
    LET src == IF source = Undefined THEN Str(EnvSource) ELSE source
    IN  Outcome(Return(Ref(Len(h) + 1)), Append(h, [apiKey |-> key, source |-> src]))

\* options?.key
OptionalGet(h, options, key) ==
    IF Nullish(options) THEN Undefined ELSE Get(h[options.ref], key)

\* if (value !== undefined) obj.key = value
SetIfDefined(obj, key, value) ==
    IF value # Undefined THEN Spread(obj, key, value) ELSE obj

\* Mutant of oauthCredential: the optional fields tested for truthiness,
\* if (options?.expiresAt) ..., so that 0 and '' are left out.
oauthCredential_Truthy(h, accessToken, options) ==
    LET o0 == [accessToken |-> accessToken]
        o1 == IF ~Falsy(OptionalGet(h, options, "refreshToken"))
              THEN Spread(o0, "refreshToken", OptionalGet(h, options, "refreshToken")) ELSE o0
        o2 == IF ~Falsy(OptionalGet(h, options, "expiresAt"))
              THEN Spread(o1, "expiresAt", OptionalGet(h, options, "expiresAt")) ELSE o1
        o3 == IF ~Falsy(OptionalGet(h, options, "accountId"))
              THEN Spread(o2, "accountId", OptionalGet(h, options, "accountId")) ELSE o2
        source == OptionalGet(h, options, "source")
    IN  Outcome(Return(Ref(Len(h) + 2)),
                h \o <<o3, [oauth |-> Ref(Len(h) + 1),
                            source |-> IF Nullish(source) THEN Str(ExternalSource) ELSE source]>>)

oauthCredential(h, accessToken, options) ==
    LET o0 == [accessToken |-> accessToken]
        o1 == SetIfDefined(o0, "refreshToken", OptionalGet(h, options, "refreshToken"))
        o2 == SetIfDefined(o1, "expiresAt", OptionalGet(h, options, "expiresAt"))
        o3 == SetIfDefined(o2, "accountId", OptionalGet(h, options, "accountId"))
        source == OptionalGet(h, options, "source")
    IN  Outcome(Return(Ref(Len(h) + 2)),
                h \o <<o3, [oauth |-> Ref(Len(h) + 1),
                            source |-> IF Nullish(source) THEN Str(ExternalSource) ELSE source]>>)

credentialFound(h, credentials) ==
    Outcome(Return(Ref(Len(h) + 1)),
            Append(h, [ok |-> Bool(TRUE), credentials |-> credentials]))

credentialMissing(h, message) ==
    Outcome(Return(Ref(Len(h) + 1)),
            Append(h, [ok |-> Bool(FALSE), reason |-> Str(<<"m", "i", "s", "s", "i", "n", "g">>),
                       message |-> message]))

\* Mutant of credentialExpired: the reason of credentialMissing.
credentialExpired_Missing(h, message) == credentialMissing(h, message)

credentialExpired(h, message) ==
    Outcome(Return(Ref(Len(h) + 1)),
            Append(h, [ok |-> Bool(FALSE), reason |-> Str(<<"e", "x", "p", "i", "r", "e", "d">>),
                       message |-> message]))

credentialInvalid(h, message) ==
    Outcome(Return(Ref(Len(h) + 1)),
            Append(h, [ok |-> Bool(FALSE), reason |-> Str(<<"i", "n", "v", "a", "l", "i", "d">>),
                       message |-> message]))

credentialError(h, message) ==
    Outcome(Return(Ref(Len(h) + 1)),
            Append(h, [ok |-> Bool(FALSE), reason |-> Str(<<"e", "r", "r", "o", "r">>),
                       message |-> message]))

\* A property left out of an object literal.
Absent == [absent |-> TRUE]

Prop(key, value) == IF value = Absent THEN <<>> ELSE key :> value

Sources == {Str(EnvSource), Str(OpencodeSource), Str(ExternalSource), Str(ConfigSource)}

\* The options objects of oauthCredential: each field left out, undefined or set.
OauthOptions ==
    {Prop("refreshToken", r) @@ Prop("expiresAt", e) @@ Prop("accountId", a) @@ Prop("source", src) :
        r \in {Absent, Undefined, Str(<<>>), Str(<<"r">>)},
        e \in {Absent, Undefined, Num(0), Num(5)},
        a \in {Absent, Undefined, Str(<<"a">>)},
        src \in {Absent, Undefined} \cup Sources}

Tokens == {Str(<<>>), Str(<<"t">>)}

Messages == {Str(<<>>), Str(<<"m">>)}

ResultHelpers == {"credentialMissing", "credentialExpired", "credentialInvalid", "credentialError"}

InitCredentials ==
    \/ \E key \in Tokens, source \in {Undefined} \cup Sources :
           /\ heap = <<>>
           /\ call = [fn |-> "apiKeyCredential", key |-> key, source |-> source]
    \/ \E accessToken \in Tokens :
           /\ heap = <<>>
           /\ call = [fn |-> "oauthCredential", accessToken |-> accessToken,
                      options |-> Undefined]
    \/ \E accessToken \in Tokens, options \in OauthOptions :
           /\ heap = <<options>>
           /\ call = [fn |-> "oauthCredential", accessToken |-> accessToken,
                      options |-> Ref(1)]
    \/ \E key \in Tokens, source \in Sources :
           /\ heap = <<[apiKey |-> key, source |-> source]>>
           /\ call = [fn |-> "credentialFound", credentials |-> Ref(1)]
    \/ \E fn \in ResultHelpers, message \in {Undefined} \cup Messages :
           /\ fn = "credentialError" => message # Undefined
           /\ heap = <<>>
           /\ call = [fn |-> fn, message |-> message]

ApiKeyCredential ==
    /\ pc = "call"
    /\ call.fn = "apiKeyCredential"
    /\ Finish(apiKeyCredential(heap, call.key, call.source))

OauthCredential ==
    /\ pc = "call"
    /\ call.fn = "oauthCredential"
    /\ Finish(oauthCredential(heap, call.accessToken, call.options))

CredentialFound ==
    /\ pc = "call"
    /\ call.fn = "credentialFound"
    /\ Finish(credentialFound(heap, call.credentials))

CredentialMissing ==
    /\ pc = "call"
    /\ call.fn = "credentialMissing"
    /\ Finish(credentialMissing(heap, call.message))

CredentialExpired ==
    /\ pc = "call"
    /\ call.fn = "credentialExpired"
    /\ Finish(credentialExpired(heap, call.message))

CredentialInvalid ==
    /\ pc = "call"
    /\ call.fn = "credentialInvalid"
    /\ Finish(credentialInvalid(heap, call.message))

CredentialError ==
    /\ pc = "call"
    /\ call.fn = "credentialError"
    /\ Finish(credentialError(heap, call.message))

(***************************************************************************)
(* src/helpers/auth.ts: isTokenExpired.  dateNow is what Date.now()        *)
(* answers during the call.                                                *)
(***************************************************************************)
\* Mutant of isTokenExpired: a strict comparison, expiresAt < Date.now() + bufferMs.
isTokenExpired_Strict(expiresAt, bufferMs, dateNow) ==
    LET buffer == IF bufferMs = Undefined THEN 5 * 60 * 1000 ELSE bufferMs.num
    IN  IF expiresAt = Undefined THEN Bool(FALSE)
        ELSE Bool(expiresAt.num < dateNow + buffer)

isTokenExpired(expiresAt, bufferMs, dateNow) ==
    LET buffer == IF bufferMs = Undefined THEN 5 * 60 * 1000 ELSE bufferMs.num
    IN  IF expiresAt = Undefined THEN Bool(FALSE)
        ELSE Bool(expiresAt.num <= dateNow + buffer)

\* The clock readings.
Nows == 0..MaxNow

\* bufferMs: omitted, or a number of milliseconds.
BufferArgs == {Undefined} \cup {Num(b) : b \in -1..MaxBuffer}

\* expiresAt: undefined, a time around the clock readings plus a given buffer,
\* or one around the clock readings plus the default buffer.
ExpiresAtArgs ==
    {Undefined} \cup {Num(e) : e \in 0..(MaxNow + MaxBuffer + 1)}
        \cup {Num(5 * 60 * 1000 + e) : e \in -1..(MaxNow + 1)}

InitAuth ==
    /\ pc = "call"
    /\ ret = Undefined
    /\ now = 0
    /\ hist = <<>>
    /\ \/ /\ heap = <<>>
          /\ \E e \in ExpiresAtArgs, b \in BufferArgs :
                 call = [fn |-> "isTokenExpired", expiresAt |-> e, bufferMs |-> b]
       \/ InitCredentials

IsTokenExpired ==
    /\ pc = "call"
    /\ call.fn = "isTokenExpired"
    /\ \E t \in Nows :
           /\ now' = t
           /\ ret' = Return(isTokenExpired(call.expiresAt, call.bufferMs, t))
    /\ pc' = "done"
    /\ UNCHANGED <<heap, call, hist>>

NextAuth ==
    \/ IsTokenExpired
    \/ ApiKeyCredential
    \/ OauthCredential
    \/ CredentialFound
    \/ CredentialMissing
    \/ CredentialExpired
    \/ CredentialInvalid
    \/ CredentialError

SpecAuth == InitAuth /\ [][NextAuth]_vars

\* C10: isTokenExpired is false for an undefined expiresAt whatever the buffer;
\* for a defined expiresAt, 0 included, it is true exactly when
\* expiresAt <= now + bufferMs, the boundary counting as expired, with bufferMs
\* 300000 when omitted.
C10_TokenExpiry ==
    (pc = "done" /\ call.fn = "isTokenExpired") =>
        LET bufferMs == IF call.bufferMs = Undefined THEN 300000 ELSE call.bufferMs.num
        IN  /\ call.expiresAt = Undefined => ret = Return(Bool(FALSE))
            /\ call.expiresAt # Undefined =>
                  ret = Return(Bool(call.expiresAt.num <= now + bufferMs))

C10_Witness ==
    /\ pc = "done"
    /\ call.fn = "isTokenExpired"
    /\ call.bufferMs = Undefined
    /\ now > 0
    /\ call.expiresAt = Num(now + 300000)
    /\ ret = Return(Bool(TRUE))

(***************************************************************************)
(* Properties of the credential helpers.                                   *)
(***************************************************************************)
\* The object the call returned.
Result == heap[ret.value.ref]

\* The options field key was supplied with a value other than undefined.
Supplied(key) ==
    /\ call.options # Undefined
    /\ key \in DOMAIN heap[call.options.ref]
    /\ heap[call.options.ref][key] # Undefined

\* C11: oauthCredential returns { oauth, source } without apiKey; oauth has
\* accessToken and exactly those of refreshToken, expiresAt and accountId that
\* were supplied with a value other than undefined; source is options.source
\* when given and 'external' otherwise.
C11_OauthCredential ==
    (pc = "done" /\ call.fn = "oauthCredential") =>
        /\ ~ret.threw
        /\ DOMAIN Result = {"oauth", "source"}
        /\ LET oauth == heap[Result["oauth"].ref]
           IN  /\ DOMAIN oauth =
                     {"accessToken"} \cup
                         {k \in {"refreshToken", "expiresAt", "accountId"} : Supplied(k)}
               /\ oauth["accessToken"] = call.accessToken
               /\ \A k \in DOMAIN oauth \ {"accessToken"} :
                     oauth[k] = heap[call.options.ref][k]
        /\ Result["source"] =
              IF Supplied("source") THEN heap[call.options.ref]["source"]
              ELSE Str(<<"e", "x", "t", "e", "r", "n", "a", "l">>)

C11_Witness ==
    /\ pc = "done"
    /\ call.fn = "oauthCredential"
    /\ Supplied("expiresAt")
    /\ heap[call.options.ref]["expiresAt"] = Num(0)
    /\ "refreshToken" \in DOMAIN heap[call.options.ref]
    /\ ~Supplied("refreshToken")
    /\ DOMAIN heap[Result["oauth"].ref] = {"accessToken", "expiresAt"}
    /\ Join(Result["source"].str) = "external"

\* C12: apiKeyCredential(key, source) returns exactly { apiKey: key, source },
\* with source 'env' when omitted; a credential built by apiKeyCredential or
\* oauthCredential has exactly one of apiKey and oauth.
C12_ApiKeyCredential ==
    /\ (pc = "done" /\ call.fn = "apiKeyCredential") =>
          /\ ~ret.threw
          /\ DOMAIN Result = {"apiKey", "source"}
          /\ Result["apiKey"] = call.key
          /\ Result["source"] =
                IF call.source = Undefined THEN Str(<<"e", "n", "v">>) ELSE call.source
    /\ (pc = "done" /\ call.fn \in {"apiKeyCredential", "oauthCredential"}) =>
          ("apiKey" \in DOMAIN Result) # ("oauth" \in DOMAIN Result)

C12_Witness ==
    /\ pc = "done"
    /\ call.fn = "apiKeyCredential"
    /\ call.source = Undefined
    /\ Join(Result["source"].str) = "env"

\* The reason each failure helper is for.
ReasonOf(fn) ==
    CASE fn = "credentialMissing" -> "missing"
      [] fn = "credentialExpired" -> "expired"
      [] fn = "credentialInvalid" -> "invalid"
      [] fn = "credentialError" -> "error"

\* C13: credentialFound(c) gives { ok: true, credentials: c } and no reason;
\* the four failure helpers give ok false, no credentials, their own fixed
\* reason, and the message they were given (undefined when omitted).
C13_CredentialResult ==
    /\ (pc = "done" /\ call.fn = "credentialFound") =>
          /\ ~ret.threw
          /\ DOMAIN Result = {"ok", "credentials"}
          /\ Result["ok"] = Bool(TRUE)
          /\ Result["credentials"] = call.credentials
    /\ (pc = "done" /\ call.fn \in ResultHelpers) =>
          /\ ~ret.threw
          /\ DOMAIN Result = {"ok", "reason", "message"}
          /\ Result["ok"] = Bool(FALSE)
          /\ Join(Result["reason"].str) = ReasonOf(call.fn)
          /\ Result["message"] = call.message

C13_Witness ==
    /\ pc = "done"
    /\ call.fn = "credentialExpired"
    /\ call.message = Undefined
    /\ Result["ok"] = Bool(FALSE)
    /\ Join(Result["reason"].str) = "expired"

(***************************************************************************)
(* src/testing/harness.ts.  A mock is an object of the heap; the bindings  *)
(* its methods close over are its "[[Scope]]".  An array is an object with *)
(* its elements under "array".  A call on a mock is made between two       *)
(* calls of the test, runs to its end, and is recorded in hist with its    *)
(* result; a returned promise is the value it is resolved with, a rejected *)
(* one a throw.                                                            *)
(***************************************************************************)
Array(elements) == [array |-> elements]

\* The binding name of the closure of a mock's methods.
Scope(h, this, name) == h[this.ref]["[[Scope]]"][name]

\* array.push(element)
Push(h, array, element) == [h EXCEPT ![array.ref] = Array(Append(@.array, element))]

\* Mutant of createMockLogger: entries declared at module level, one array
\* for every logger made.
createMockLogger_SharedEntries(h) ==
    LET made == {r \in DOMAIN h : "clear" \in DOMAIN h[r]}
        entries == IF made = {} THEN Ref(Len(h) + 1)
                   ELSE h[CHOOSE r \in made : TRUE].entries
    IN  Outcome(Return(Ref(Len(h) + 2)),
                h \o <<Array(<<>>),
                       [entries |-> entries,
                        debug |-> Fn("debug"), info |-> Fn("info"), warn |-> Fn("warn"),
                        error |-> Fn("error"), clear |-> Fn("clear")]
                       @@ ("[[Scope]]" :> [entries |-> entries])>>)

createMockLogger(h) ==
    LET entries == Ref(Len(h) + 1)
    IN  Outcome(Return(Ref(Len(h) + 2)),
                h \o <<Array(<<>>),
                       [entries |-> entries,
                        debug |-> Fn("debug"), info |-> Fn("info"), warn |-> Fn("warn"),
                        error |-> Fn("error"), clear |-> Fn("clear")]
                       @@ ("[[Scope]]" :> [entries |-> entries])>>)

\* Mutant of debug: debug messages filtered out.
debug_Filtered(h, this, message, data) == Outcome(Return(Undefined), h)

debug(h, this, message, data) ==
    Outcome(Return(Undefined),
            Push(h, Scope(h, this, "entries"),
                 [level |-> Str(<<"d", "e", "b", "u", "g">>), message |-> message, data |-> data]))

info(h, this, message, data) ==
    Outcome(Return(Undefined),
            Push(h, Scope(h, this, "entries"),
                 [level |-> Str(<<"i", "n", "f", "o">>), message |-> message, data |-> data]))

warn(h, this, message, data) ==
    Outcome(Return(Undefined),
            Push(h, Scope(h, this, "entries"),
                 [level |-> Str(<<"w", "a", "r", "n">>), message |-> message, data |-> data]))

error(h, this, message, data) ==
    Outcome(Return(Undefined),
            Push(h, Scope(h, this, "entries"),
                 [level |-> Str(<<"e", "r", "r", "o", "r">>), message |-> message, data |-> data]))

\* entries.length = 0
clear(h, this) ==
    Outcome(Return(Undefined), [h EXCEPT ![Scope(h, this, "entries").ref] = Array(<<>>)])

\* What the test holds: the members of the context it was returned, the last
\* made, and of its authSources; every object when it made the mocks itself.
Held(h) ==
    LET contexts == {r \in DOMAIN h : {"logger", "signal"} \subseteq DOMAIN h[r]}
        ctx == h[CHOOSE r \in contexts : \A q \in contexts : q <= r]
    IN  IF contexts = {} THEN {Ref(r) : r \in DOMAIN h}
        ELSE {ctx[k] : k \in DOMAIN ctx}
             \cup (IF "authSources" \in DOMAIN ctx
                   THEN {h[ctx.authSources.ref][k] : k \in DOMAIN h[ctx.authSources.ref]}
                   ELSE {})

\* The mocks the test holds, by the method only they have.
Loggers(h) == {Ref(r) : r \in {x \in DOMAIN h : "clear" \in DOMAIN h[x]}} \cap Held(h)

\* A test of one mock makes up to MaxCalls calls on it; a test of a context,
\* which has the calls of all its mocks to choose from, up to MaxContextCalls.
Ready ==
    Len(hist) < IF \E r \in DOMAIN heap : "signal" \in DOMAIN heap[r]
                THEN MaxContextCalls
                ELSE MaxCalls

\* One call on a mock: its effect on the heap, its result, its record.
Apply(c, o) ==
    /\ heap' = o.heap
    /\ ret' = o.ret
    /\ call' = c
    /\ hist' = Append(hist, [call |-> c, ret |-> o.ret])
    /\ UNCHANGED <<pc, now>>

\* The object a test passes as the data of a log call.
DataObject == [key |-> Str(<<"v">>)]

LogMessages == {Str(<<>>), Str(<<"m">>)}

LogData(h) == {Undefined} \cup {Ref(r) : r \in {x \in DOMAIN h : h[x] = DataObject}}

InitLogger ==
    /\ heap = createMockLogger(<<DataObject>>).heap
    /\ ret = createMockLogger(<<DataObject>>).ret
    /\ call = [fn |-> "createMockLogger"]
    /\ pc = "test"
    /\ now = 0
    /\ hist = <<>>

Debug ==
    /\ Ready
    /\ \E this \in Loggers(heap), message \in LogMessages, data \in LogData(heap) :
           Apply([fn |-> "debug", this |-> this, message |-> message, data |-> data],
                 debug(heap, this, message, data))

Info ==
    /\ Ready
    /\ \E this \in Loggers(heap), message \in LogMessages, data \in LogData(heap) :
           Apply([fn |-> "info", this |-> this, message |-> message, data |-> data],
                 info(heap, this, message, data))

Warn ==
    /\ Ready
    /\ \E this \in Loggers(heap), message \in LogMessages, data \in LogData(heap) :
           Apply([fn |-> "warn", this |-> this, message |-> message, data |-> data],
                 warn(heap, this, message, data))

Error ==
    /\ Ready
    /\ \E this \in Loggers(heap), message \in LogMessages, data \in LogData(heap) :
           Apply([fn |-> "error", this |-> this, message |-> message, data |-> data],
                 error(heap, this, message, data))

Clear ==
    /\ Ready
    /\ \E this \in Loggers(heap) :
           Apply([fn |-> "clear", this |-> this], clear(heap, this))

NextLogger ==
    \/ Debug
    \/ Info
    \/ Warn
    \/ Error
    \/ Clear

SpecLogger == InitLogger /\ [][NextLogger]_vars

(***************************************************************************)
(* Properties of the mock logger.                                          *)
(***************************************************************************)
\* The calls recorded on the mock this, in the order they were made.
CallsOn(this) == SelectSeq(hist, LAMBDA c : c.call.this = this)

RECURSIVE SinceLastClear(_)
\* The calls of cs that follow its last clear.
SinceLastClear(cs) ==
    IF cs = <<>> THEN <<>>
    ELSE IF cs[Len(cs)].call.fn = "clear" THEN <<>>
    ELSE Append(SinceLastClear(SubSeq(cs, 1, Len(cs) - 1)), cs[Len(cs)])

\* logger.entries, as the test reads it.
EntriesOf(this) == heap[heap[this.ref]["entries"].ref].array

\* C14: after any sequence of debug, info, warn, error and clear calls,
\* logger.entries is the list of the log calls made since the last clear, in
\* call order, each as { level, message, data } with the level of the method
\* called; after clear() it is empty.
C14_LoggerEntries ==
    \A this \in Loggers(heap) :
        LET logged == SinceLastClear(CallsOn(this))
            entries == EntriesOf(this)
        IN  /\ Len(entries) = Len(logged)
            /\ \A i \in 1..Len(entries) :
                  /\ DOMAIN entries[i] = {"level", "message", "data"}
                  /\ Join(entries[i].level.str) = logged[i].call.fn
                  /\ entries[i].message = logged[i].call.message
                  /\ entries[i].data = logged[i].call.data

C14_Witness ==
    /\ Len(hist) = 3
    /\ hist[1].call.fn = "warn"
    /\ hist[2].call.fn = "clear"
    /\ hist[3].call.fn = "debug"
    /\ hist[3].call.data # Undefined
    /\ Len(EntriesOf(hist[3].call.this)) = 1

(***************************************************************************)
(* JSON.stringify and JSON.parse, over the JSON values built of natural    *)
(* numbers, null and arrays, held by value.  JSON.parse reads its text     *)
(* from the first character on; the texts tried hold no white space, sign, *)
(* fraction, string or object, and any other character ends the parse      *)
(* with a SyntaxError.                                                     *)
(***************************************************************************)
NullText == <<"n", "u", "l", "l">>

RECURSIVE JSONStringify(_)
RECURSIVE StringifyElements(_)
JSONStringify(v) ==
    CASE v = Null -> NullText
      [] "num" \in DOMAIN v -> NumChars(v.num)
      [] "array" \in DOMAIN v -> <<"[">> \o StringifyElements(v.array) \o <<"]">>

StringifyElements(es) ==
    IF es = <<>> THEN <<>>
    ELSE IF Len(es) = 1 THEN JSONStringify(es[1])
    ELSE JSONStringify(es[1]) \o <<",">> \o StringifyElements(Tail(es))

DigitValue(c) ==
    CASE c = "0" -> 0 [] c = "1" -> 1 [] c = "2" -> 2 [] c = "3" -> 3 [] c = "4" -> 4
      [] c = "5" -> 5 [] c = "6" -> 6 [] c = "7" -> 7 [] c = "8" -> 8 [] c = "9" -> 9

SyntaxError == [ok |-> FALSE]

Parsed(value, next) == [ok |-> TRUE, value |-> value, next |-> next]

RECURSIVE ParseDigits(_, _, _)
\* The digits from position i on, after a number of value acc.
ParseDigits(s, i, acc) ==
    IF i <= Len(s) /\ s[i] \in DigitChars
    THEN ParseDigits(s, i + 1, 10 * acc + DigitValue(s[i]))
    ELSE Parsed(Num(acc), i)

RECURSIVE ParseValue(_, _)
RECURSIVE ParseElements(_, _, _)
\* One JSON value at position i.
ParseValue(s, i) ==
    IF i > Len(s) THEN SyntaxError
    ELSE IF s[i] = "n"
    THEN IF i + 3 <= Len(s) /\ SubSeq(s, i, i + 3) = NullText
         THEN Parsed(Null, i + 4)
         ELSE SyntaxError
    ELSE IF s[i] = "0" THEN Parsed(Num(0), i + 1)
    ELSE IF s[i] \in DigitChars THEN ParseDigits(s, i, 0)
    ELSE IF s[i] = "["
    THEN IF i + 1 <= Len(s) /\ s[i + 1] = "]"
         THEN Parsed(Array(<<>>), i + 2)
         ELSE ParseElements(s, i + 1, <<>>)
    ELSE SyntaxError

\* The elements of an array from position i on, after the elements acc.
ParseElements(s, i, acc) ==
    LET r == ParseValue(s, i)
    IN  IF ~r.ok THEN SyntaxError
        ELSE IF r.next > Len(s) THEN SyntaxError
        ELSE IF s[r.next] = "," THEN ParseElements(s, r.next + 1, Append(acc, r.value))
        ELSE IF s[r.next] = "]" THEN Parsed(Array(Append(acc, r.value)), r.next + 1)
        ELSE SyntaxError

JSONParse(s) ==
    LET r == ParseValue(s, 1)
    IN  IF r.ok /\ r.next = Len(s) + 1 THEN Return(r.value) ELSE Throw(<<"SyntaxError">>)

(***************************************************************************)
(* Property reads of plain objects.  An object literal inherits from       *)
(* Object.prototype, so a read with a computed key, obj[key], and          *)
(* key in obj find the inherited properties too.                           *)
(***************************************************************************)
ObjectPrototype ==
    [constructor |-> Fn("Object"), toString |-> Fn("toString"),
     valueOf |-> Fn("valueOf"), hasOwnProperty |-> Fn("hasOwnProperty")]

\* obj[key]
GetProperty(obj, key) ==
    IF key \in DOMAIN obj THEN obj[key]
    ELSE IF key \in DOMAIN ObjectPrototype THEN ObjectPrototype[key]
    ELSE Undefined

\* key in obj
HasProperty(obj, key) == key \in DOMAIN obj \cup DOMAIN ObjectPrototype

\* v[key] for a value v: an object of the heap, or a function, which has no
\* property of the names read here but the inherited ones.
GetV(h, v, key) ==
    IF "ref" \in DOMAIN v THEN GetProperty(h[v.ref], key)
    ELSE IF key \in DOMAIN ObjectPrototype THEN ObjectPrototype[key]
    ELSE Undefined

(***************************************************************************)
(* createMockHttpClient.                                                   *)
(***************************************************************************)
ContentType == "Content-Type"

ApplicationJson ==
    Str(<<"a", "p", "p", "l", "i", "c", "a", "t", "i", "o", "n", "/", "j", "s", "o", "n">>)

\* new Response(body, init): the status is 200 when init gives none.
Response(body, init) ==
    [status |-> IF Get(init, "status") = Undefined THEN Num(200) ELSE init.status,
     body |-> body,
     headers |-> IF "headers" \in DOMAIN init THEN init.headers ELSE <<>>]

\* { 'Content-Type': 'application/json', ...headers }
SpreadOver(key, value, h, headers) ==
    IF Nullish(headers) THEN (key :> value) ELSE h[headers.ref] @@ (key :> value)

createMockHttpClient(h, options) ==
    LET h1 == IF options = Undefined THEN Append(h, <<>>) ELSE h
        opts == IF options = Undefined THEN Ref(Len(h) + 1) ELSE options
        calls == Ref(Len(h1) + 1)
    IN  Outcome(Return(Ref(Len(h1) + 2)),
                h1 \o <<Array(<<>>),
                        [calls |-> calls, fetch |-> Fn("fetch")]
                        @@ ("[[Scope]]" :> [calls |-> calls, options |-> opts])>>)

\* Mutant of fetch: only the calls that match a mock recorded.
fetch_RecordsMatched(h, this, url, init) ==
    LET options == h[Scope(h, this, "options").ref]
        mocks == GetProperty(options, "mocks")
        mock == IF Nullish(mocks) THEN Undefined ELSE GetV(h, mocks, Join(url.str))
        h1 == Push(h, Scope(h, this, "calls"), [url |-> url, init |-> init])
        defaultStatus == GetProperty(options, "defaultStatus")
    IN  IF ~Falsy(mock)
        THEN Outcome(Return(Ref(Len(h1) + 1)),
                     Append(h1, Response(IF GetV(h, mock, "body") # Undefined
                                         THEN Str(JSONStringify(GetV(h, mock, "body")))
                                         ELSE Null,
                                         [status |-> GetV(h, mock, "status"),
                                          headers |-> SpreadOver(ContentType, ApplicationJson,
                                                                 h, GetV(h, mock, "headers"))])))
        ELSE Outcome(Return(Ref(Len(h) + 1)),
                     Append(h, Response(Null, [status |-> IF Nullish(defaultStatus)
                                                          THEN Num(404)
                                                          ELSE defaultStatus])))

fetch(h, this, url, init) ==
    LET options == h[Scope(h, this, "options").ref]
        h1 == Push(h, Scope(h, this, "calls"), [url |-> url, init |-> init])
        mocks == GetProperty(options, "mocks")
        mock == IF Nullish(mocks) THEN Undefined ELSE GetV(h, mocks, Join(url.str))
        defaultStatus == GetProperty(options, "defaultStatus")
    IN  IF ~Falsy(mock)
        THEN Outcome(Return(Ref(Len(h1) + 1)),
                     Append(h1, Response(IF GetV(h, mock, "body") # Undefined
                                         THEN Str(JSONStringify(GetV(h, mock, "body")))
                                         ELSE Null,
                                         [status |-> GetV(h, mock, "status"),
                                          headers |-> SpreadOver(ContentType, ApplicationJson,
                                                                 h, GetV(h, mock, "headers"))])))
        ELSE Outcome(Return(Ref(Len(h1) + 1)),
                     Append(h1, Response(Null, [status |-> IF Nullish(defaultStatus)
                                                           THEN Num(404)
                                                           ELSE defaultStatus])))

HttpClients(h) == {Ref(r) : r \in {x \in DOMAIN h : "fetch" \in DOMAIN h[x]}} \cap Held(h)

\* What the tests pass: an init, the headers of a mock, two mocks.
PostInit == [method |-> Str(<<"P", "O", "S", "T">>)]

CustomHeaders == ("X-Custom" :> Str(<<"t", "e", "s", "t">>))

UsageMock == [status |-> Num(200), body |-> Array(<<Num(4), Null>>), headers |-> Ref(2)]

EmptyMock == [status |-> Num(204)]

UsageUrl == <<"/", "u">>

EmptyUrl == <<"/", "e">>

MockTables == {<<>>, (Join(UsageUrl) :> Ref(3)) @@ (Join(EmptyUrl) :> Ref(4))}

HttpOptions ==
    {<<>>, [defaultStatus |-> Num(500)]}
    \cup {[mocks |-> Ref(5)], [mocks |-> Ref(5), defaultStatus |-> Num(500)]}

\* The URLs fetched: the two of the table, near misses of the first in
\* case, trailing slash and query string, and a name every object inherits.
Urls ==
    {Str(UsageUrl), Str(EmptyUrl), Str(<<"/", "U">>), Str(<<"/", "u", "/">>),
     Str(<<"/", "u", "?">>),
     Str(<<"c", "o", "n", "s", "t", "r", "u", "c", "t", "o", "r">>)}

InitHttp ==
    /\ pc = "test"
    /\ now = 0
    /\ hist = <<>>
    /\ \E mocks \in MockTables, options \in HttpOptions, given \in BOOLEAN :
          LET h == <<PostInit, CustomHeaders, UsageMock, EmptyMock, mocks, options>>
              o == createMockHttpClient(h, IF given THEN Ref(6) ELSE Undefined)
          IN  /\ given \/ (mocks = <<>> /\ options = <<>>)
              /\ "mocks" \in DOMAIN options \/ mocks = <<>>
              /\ heap = o.heap
              /\ ret = o.ret
              /\ call = [fn |-> "createMockHttpClient",
                         options |-> IF given THEN Ref(6) ELSE Undefined]

\* The init argument of a fetch: none, or the object the test has for it.
RequestInits(h) == {Undefined} \cup {Ref(r) : r \in {x \in DOMAIN h : h[x] = PostInit}}

Fetch ==
    /\ Ready
    /\ \E this \in HttpClients(heap), url \in Urls, init \in RequestInits(heap) :
           Apply([fn |-> "fetch", this |-> this, url |-> url, init |-> init],
                 fetch(heap, this, url, init))

NextHttp == Fetch

SpecHttp == InitHttp /\ [][NextHttp]_vars

(***************************************************************************)
(* Properties of the mock HTTP client.                                     *)
(***************************************************************************)
\* client.calls, as the test reads it.
HttpCallsOf(this) == heap[heap[this.ref]["calls"].ref].array

\* C15: client.calls is the list of { url, init } of all the fetch calls made
\* on the client so far, matched by a mock or not, in call order, with the
\* url and init as they were passed.
C15_HttpCalls ==
    \A this \in HttpClients(heap) :
        LET fetched == CallsOn(this)
            calls == HttpCallsOf(this)
        IN  /\ Len(calls) = Len(fetched)
            /\ \A i \in 1..Len(calls) :
                  /\ DOMAIN calls[i] = {"url", "init"}
                  /\ calls[i].url = fetched[i].call.url
                  /\ calls[i].init = fetched[i].call.init

C15_Witness ==
    /\ Len(hist) = 3
    /\ hist[1].call.url = Str(UsageUrl)
    /\ hist[1].call.init = Ref(1)
    /\ hist[2].call.url = Str(<<"/", "U">>)
    /\ heap[hist[2].ret.value.ref].status = Num(404)
    /\ hist[3].call.url = Str(UsageUrl)
    /\ Len(HttpCallsOf(hist[1].call.this)) = 3

\* The options the client this was made with, and its table of mocks: the
\* table has no key when no table was given.
HttpOptionsOf(this) == heap[Scope(heap, this, "options").ref]

MockTableOf(this) ==
    IF Nullish(Get(HttpOptionsOf(this), "mocks")) THEN <<>>
    ELSE heap[HttpOptionsOf(this).mocks.ref]

\* The response is the canned one of mock: its status, and a JSON body that
\* parses to its body (none when the mock has none).
IsCanned(resp, mock) ==
    /\ resp.status = mock.status
    /\ IF "body" \in DOMAIN mock
       THEN resp.body # Null /\ JSONParse(resp.body.str) = Return(mock.body)
       ELSE resp.body = Null

\* The default status of the client this: 404 unless one was given.
DefaultStatusOf(this) ==
    IF "defaultStatus" \in DOMAIN HttpOptionsOf(this)
    THEN HttpOptionsOf(this).defaultStatus
    ELSE Num(404)

\* The response has no body and the default status of the client this.
IsDefault(resp, this) == resp.body = Null /\ resp.status = DefaultStatusOf(this)

\* C16: a fetch answers with the canned status and JSON body of a mock exactly
\* when its url is, character for character, a key of the table of mocks;
\* every other url gets the empty body and the default status, 404 unless
\* defaultStatus was given.
C16_ExactUrl ==
    \A i \in 1..Len(hist) :
        hist[i].call.fn = "fetch" =>
            LET this == hist[i].call.this
                key == Join(hist[i].call.url.str)
                resp == heap[hist[i].ret.value.ref]
            IN  /\ ~hist[i].ret.threw
                /\ IF key \in DOMAIN MockTableOf(this)
                   THEN IsCanned(resp, heap[MockTableOf(this)[key].ref])
                   ELSE IsDefault(resp, this)

(***************************************************************************)
(* createMockStorage.  The store is a Map: its keys are only those put     *)
(* into it, whatever an object would inherit.  No operation of the mock    *)
(* reads the order of the Map, which is left out.                          *)
(***************************************************************************)
\* Object.entries(obj): the own properties of obj.
ObjectEntries(obj) == {<<k, obj[k]>> : k \in DOMAIN obj}

\* new Map(entries)
NewMap(entries) == [map |-> [k \in {e[1] : e \in entries} |-> (CHOOSE e \in entries : e[1] = k)[2]]]

MapGet(m, key) == IF key \in DOMAIN m.map THEN m.map[key] ELSE Undefined

MapSet(m, key, value) == [map |-> [k \in DOMAIN m.map \cup {key} |-> IF k = key THEN value ELSE m.map[k]]]

MapDelete(m, key) == [map |-> [k \in DOMAIN m.map \ {key} |-> m.map[k]]]

MapHas(m, key) == key \in DOMAIN m.map

createMockStorage(h, initial) ==
    LET store == Ref(Len(h) + 1)
    IN  Outcome(Return(Ref(Len(h) + 2)),
                h \o <<NewMap(ObjectEntries(IF Nullish(initial) THEN <<>> ELSE h[initial.ref])),
                       [store |-> store, get |-> Fn("get"), set |-> Fn("set"),
                        delete |-> Fn("delete"), has |-> Fn("has")]
                       @@ ("[[Scope]]" :> [store |-> store, initial |-> initial])>>)

\* Mutant of get: store.get(key) || null, so that a stored '' reads as null.
get_Falsy(h, this, key) ==
    LET value == MapGet(h[Scope(h, this, "store").ref], Join(key.str))
    IN  Outcome(Return(IF Falsy(value) THEN Null ELSE value), h)

get(h, this, key) ==
    LET value == MapGet(h[Scope(h, this, "store").ref], Join(key.str))
    IN  Outcome(Return(IF Nullish(value) THEN Null ELSE value), h)

\* Mutant of set: a suspension point before the write, await null, so that
\* the call returns with the store as it was.
set_Suspended(h, this, key, value) == Outcome(Return(Undefined), h)

set(h, this, key, value) ==
    Outcome(Return(Undefined),
            [h EXCEPT ![Scope(h, this, "store").ref] = MapSet(@, Join(key.str), value)])

\* Mutant of delete: store.clear(), which drops every key.
delete_Clear(h, this, key) ==
    Outcome(Return(Undefined),
            [h EXCEPT ![Scope(h, this, "store").ref] = NewMap({})])

delete(h, this, key) ==
    Outcome(Return(Undefined),
            [h EXCEPT ![Scope(h, this, "store").ref] = MapDelete(@, Join(key.str))])

has(h, this, key) ==
    Outcome(Return(Bool(MapHas(h[Scope(h, this, "store").ref], Join(key.str)))), h)

Storages(h) == {Ref(r) : r \in {x \in DOMAIN h : "store" \in DOMAIN h[x]}} \cap Held(h)

\* The keys and values the tests use, and a name every object inherits.
StorageKeys ==
    {Str(<<"a">>), Str(<<"b">>),
     Str(<<"c", "o", "n", "s", "t", "r", "u", "c", "t", "o", "r">>)}

StorageValues == {Str(<<>>), Str(<<"x">>)}

InitialTables == {<<>>, [a |-> Str(<<"1">>)], [a |-> Str(<<>>), b |-> Str(<<"2">>)]}

InitStorage ==
    /\ pc = "test"
    /\ now = 0
    /\ hist = <<>>
    /\ \E table \in InitialTables, given \in BOOLEAN :
          LET o == createMockStorage(<<table>>, IF given THEN Ref(1) ELSE Undefined)
          IN  /\ given \/ table = <<>>
              /\ heap = o.heap
              /\ ret = o.ret
              /\ call = [fn |-> "createMockStorage",
                         initial |-> IF given THEN Ref(1) ELSE Undefined]

StorageGet ==
    /\ Ready
    /\ \E this \in Storages(heap), key \in StorageKeys :
           Apply([fn |-> "get", this |-> this, key |-> key], get(heap, this, key))

StorageSet ==
    /\ Ready
    /\ \E this \in Storages(heap), key \in StorageKeys, value \in StorageValues :
           Apply([fn |-> "set", this |-> this, key |-> key, value |-> value],
                 set(heap, this, key, value))

StorageDelete ==
    /\ Ready
    /\ \E this \in Storages(heap), key \in StorageKeys :
           Apply([fn |-> "delete", this |-> this, key |-> key], delete(heap, this, key))

StorageHas ==
    /\ Ready
    /\ \E this \in Storages(heap), key \in StorageKeys :
           Apply([fn |-> "has", this |-> this, key |-> key], has(heap, this, key))

NextStorage ==
    \/ StorageGet
    \/ StorageSet
    \/ StorageDelete
    \/ StorageHas

SpecStorage == InitStorage /\ [][NextStorage]_vars

(***************************************************************************)
(* Properties of the mock storage.                                         *)
(***************************************************************************)
\* The table the storage this was made from: empty when none was given.
InitialTableOf(this) ==
    IF Nullish(Scope(heap, this, "initial")) THEN <<>>
    ELSE heap[Scope(heap, this, "initial").ref]

\* The positions before i of the writes (set, delete) of key on this.
WritesBefore(i, this, key) ==
    {j \in 1..(i - 1) : /\ hist[j].call.this = this
                        /\ hist[j].call.fn \in {"set", "delete"}
                        /\ hist[j].call.key = key}

Latest(js) == CHOOSE j \in js : \A k \in js : k <= j

\* What the call at position i of hist has to read for its key: the value
\* of the last set, nothing after a delete, the initial table before both.
Expected(i) ==
    LET this == hist[i].call.this
        key == hist[i].call.key
        writes == WritesBefore(i, this, key)
    IN  IF writes = {}
        THEN IF Join(key.str) \in DOMAIN InitialTableOf(this)
             THEN InitialTableOf(this)[Join(key.str)]
             ELSE Null
        ELSE IF hist[Latest(writes)].call.fn = "set"
        THEN hist[Latest(writes)].call.value
        ELSE Null

\* C17: the storage is a map from keys to strings: get(k) after set(k, v)
\* resolves to v, the last write winning; after delete(k), get(k) resolves to
\* null and has(k) to false; and a storage made from an initial table reads,
\* until written, as that table: has(k) is true and get(k) its value for
\* exactly the keys of the table.
C17_StorageMap ==
    \A i \in 1..Len(hist) :
        /\ hist[i].call.fn = "get" => hist[i].ret = Return(Expected(i))
        /\ hist[i].call.fn = "has" => hist[i].ret = Return(Bool(Expected(i) # Null))

C17_Witness ==
    /\ Len(hist) = 3
    /\ hist[1].call.fn = "has" /\ hist[1].call.key = Str(<<"a">>) /\ hist[1].ret = Return(Bool(TRUE))
    /\ hist[2].call.fn = "set" /\ hist[2].call.key = Str(<<"a">>) /\ hist[2].call.value = Str(<<"x">>)
    /\ hist[3].call.fn = "get" /\ hist[3].call.key = Str(<<"a">>) /\ hist[3].ret = Return(Str(<<"x">>))
    /\ InitialTableOf(hist[1].call.this) = [a |-> Str(<<"1">>)]

(***************************************************************************)
(* createTestContext and the two fetch contexts.  process is the Node      *)
(* process the harness reads the platform from.                            *)
(***************************************************************************)
\* value ?? {}: the object itself, or a new empty one put on the heap.
OrEmptyObject(h, value) ==
    IF Nullish(value) THEN Outcome(Return(Ref(Len(h) + 1)), Append(h, <<>>))
    ELSE Outcome(Return(value), h)

\* new AbortController(): the signal, then the controller that holds it.
NewAbortController(h) ==
    Outcome(Return(Ref(Len(h) + 2)),
            h \o <<[aborted |-> Bool(FALSE)], [signal |-> Ref(Len(h) + 1)]>>)

DefaultHome == Str(<<"/", "h", "o", "m", "e", "/", "t", "e", "s", "t">>)

\* Mutant of createTestContext: the signal of a controller already aborted.
createTestContext_Aborted(h, options, process) ==
    LET opts == OrEmptyObject(h, options)
        o == opts.heap[opts.ret.value.ref]
        logger == createMockLogger(opts.heap)
        http == createMockHttpClient(
                    Append(logger.heap, [mocks |-> GetProperty(o, "httpMocks")]),
                    Ref(Len(logger.heap) + 1))
        storage == createMockStorage(http.heap, GetProperty(o, "storage"))
        controller == NewAbortController(storage.heap)
        envMap == OrEmptyObject(controller.heap, GetProperty(o, "env"))
        fileMap == OrEmptyObject(envMap.heap, GetProperty(o, "files"))
        config == OrEmptyObject(fileMap.heap, GetProperty(o, "config"))
        n == Len(config.heap)
        home == Get(process.env, "HOME")
    IN  Outcome(Return(Ref(n + 6)),
                [config.heap EXCEPT ![controller.heap[controller.ret.value.ref].signal.ref] =
                                        [aborted |-> Bool(TRUE)]]
                \o <<[get |-> Fn("get")] @@ ("[[Scope]]" :> [envMap |-> envMap.ret.value]),
                     [readText |-> Fn("readText"), readJson |-> Fn("readJson"),
                      exists |-> Fn("exists")]
                     @@ ("[[Scope]]" :> [fileMap |-> fileMap.ret.value]),
                     [getProviderEntry |-> Fn("getProviderEntry")],
                     [os |-> process.platform,
                      homedir |-> IF Nullish(home) THEN DefaultHome ELSE home,
                      arch |-> process.arch],
                     [env |-> Ref(n + 1), files |-> Ref(n + 2),
                      opencode |-> Ref(n + 3), platform |-> Ref(n + 4)],
                     [config |-> config.ret.value,
                      logger |-> logger.ret.value,
                      http |-> http.ret.value,
                      storage |-> storage.ret.value,
                      signal |-> controller.heap[controller.ret.value.ref].signal,
                      authSources |-> Ref(n + 5)]>>)

createTestContext(h, options, process) ==
    LET opts == OrEmptyObject(h, options)
        o == opts.heap[opts.ret.value.ref]
        logger == createMockLogger(opts.heap)
        http == createMockHttpClient(
                    Append(logger.heap, [mocks |-> GetProperty(o, "httpMocks")]),
                    Ref(Len(logger.heap) + 1))
        storage == createMockStorage(http.heap, GetProperty(o, "storage"))
        controller == NewAbortController(storage.heap)
        envMap == OrEmptyObject(controller.heap, GetProperty(o, "env"))
        fileMap == OrEmptyObject(envMap.heap, GetProperty(o, "files"))
        config == OrEmptyObject(fileMap.heap, GetProperty(o, "config"))
        n == Len(config.heap)
        home == Get(process.env, "HOME")
    IN  Outcome(Return(Ref(n + 6)),
                config.heap
                \o <<[get |-> Fn("get")] @@ ("[[Scope]]" :> [envMap |-> envMap.ret.value]),
                     [readText |-> Fn("readText"), readJson |-> Fn("readJson"),
                      exists |-> Fn("exists")]
                     @@ ("[[Scope]]" :> [fileMap |-> fileMap.ret.value]),
                     [getProviderEntry |-> Fn("getProviderEntry")],
                     [os |-> process.platform,
                      homedir |-> IF Nullish(home) THEN DefaultHome ELSE home,
                      arch |-> process.arch],
                     [env |-> Ref(n + 1), files |-> Ref(n + 2),
                      opencode |-> Ref(n + 3), platform |-> Ref(n + 4)],
                     [config |-> config.ret.value,
                      logger |-> logger.ret.value,
                      http |-> http.ret.value,
                      storage |-> storage.ret.value,
                      signal |-> controller.heap[controller.ret.value.ref].signal,
                      authSources |-> Ref(n + 5)]>>)

createTestProviderFetchContext(h, credentials, options, process) ==
    LET made == createTestContext(h, options, process)
        ctx == made.heap[made.ret.value.ref]
    IN  Outcome(Return(Ref(Len(made.heap) + 1)),
                Append(made.heap,
                       [credentials |-> credentials, http |-> ctx.http, logger |-> ctx.logger,
                        config |-> ctx.config, signal |-> ctx.signal]))

\* Mutant of createTestAgentFetchContext: the storage of the full context
\* passed on too.
createTestAgentFetchContext_WithStorage(h, options, process) ==
    LET made == createTestContext(h, options, process)
        ctx == made.heap[made.ret.value.ref]
    IN  Outcome(Return(Ref(Len(made.heap) + 1)),
                Append(made.heap,
                       [http |-> ctx.http, logger |-> ctx.logger, storage |-> ctx.storage,
                        config |-> ctx.config, signal |-> ctx.signal]))

createTestAgentFetchContext(h, options, process) ==
    LET made == createTestContext(h, options, process)
        ctx == made.heap[made.ret.value.ref]
    IN  Outcome(Return(Ref(Len(made.heap) + 1)),
                Append(made.heap,
                       [http |-> ctx.http, logger |-> ctx.logger,
                        config |-> ctx.config, signal |-> ctx.signal]))

\* authSources.env.get(name)
envGet(h, this, name) ==
    Outcome(Return(GetProperty(h[Scope(h, this, "envMap").ref], Join(name.str))), h)

readText(h, this, path) ==
    LET text == GetProperty(h[Scope(h, this, "fileMap").ref], Join(path.str))
    IN  Outcome(Return(IF Nullish(text) THEN Null ELSE text), h)

\* String(v) of the argument of JSON.parse: the string itself; of a function
\* its source text, of which the parse reads no further than the first
\* character.
ToText(v) == IF TypeOf(v) = "string" THEN v.str ELSE <<"f", "u", "n", "c", "t", "i", "o", "n">>

\* Mutant of readJson: the failure of JSON.parse passed on to the caller.
readJson_NoCatch(h, this, path) ==
    LET text == GetProperty(h[Scope(h, this, "fileMap").ref], Join(path.str))
    IN  IF Falsy(text) THEN Outcome(Return(Null), h)
        ELSE Outcome(JSONParse(ToText(text)), h)

readJson(h, this, path) ==
    LET text == GetProperty(h[Scope(h, this, "fileMap").ref], Join(path.str))
        parsed == JSONParse(ToText(text))
    IN  IF Falsy(text) THEN Outcome(Return(Null), h)
        ELSE IF parsed.threw THEN Outcome(Return(Null), h)
        ELSE Outcome(parsed, h)

exists(h, this, path) ==
    Outcome(Return(Bool(HasProperty(h[Scope(h, this, "fileMap").ref], Join(path.str)))), h)

getProviderEntry(h, this, key) == Outcome(Return(Null), h)

EnvSources(h) ==
    {Ref(r) : r \in {x \in DOMAIN h : DOMAIN h[x] = {"get", "[[Scope]]"}}} \cap Held(h)

FileSources(h) == {Ref(r) : r \in {x \in DOMAIN h : "readJson" \in DOMAIN h[x]}} \cap Held(h)

OpencodeSources(h) ==
    {Ref(r) : r \in {x \in DOMAIN h : "getProviderEntry" \in DOMAIN h[x]}} \cap Held(h)

\* The names the tests ask the auth sources for: one the tables hold, one
\* they do not, and one every object inherits.
ConfiguredName == <<"a">>

AuthNames ==
    {Str(ConfiguredName), Str(<<"b">>),
     Str(<<"c", "o", "n", "s", "t", "r", "u", "c", "t", "o", "r">>)}

\* The tables of the options of a test context, after the objects of the
\* HTTP mocks.
EnvTable == (Join(ConfiguredName) :> Str(<<"s">>))

FilesTable == (Join(ConfiguredName) :> Str(<<"[", "1", "]">>))

StorageTable == (Join(ConfiguredName) :> Str(<<"1">>))

ConfigObject == [interval |-> Num(30)]

ContextOptions ==
    {<<>>, [env |-> Ref(6), files |-> Ref(7), httpMocks |-> Ref(5), storage |-> Ref(8),
            config |-> Ref(9)]}

Processes ==
    {[platform |-> Str(<<"l", "i", "n", "u", "x">>), arch |-> Str(<<"x", "6", "4">>),
      env |-> [HOME |-> Str(<<"/", "r">>)]],
     [platform |-> Str(<<"d", "a", "r", "w", "i", "n">>), arch |-> Str(<<"a", "r", "m", "6", "4">>),
      env |-> <<>>]}

\* The heap of a test before it makes its context.
ContextHeap(options) ==
    <<PostInit, CustomHeaders, UsageMock, EmptyMock,
      (Join(UsageUrl) :> Ref(3)) @@ (Join(EmptyUrl) :> Ref(4)),
      EnvTable, FilesTable, StorageTable, ConfigObject, options>>

ContextFactories ==
    {"createTestContext", "createTestProviderFetchContext", "createTestAgentFetchContext"}

InitContext ==
    /\ pc = "test"
    /\ now = 0
    /\ hist = <<>>
    /\ \E fn \in ContextFactories, options \in ContextOptions, given \in BOOLEAN,
          process \in Processes :
          LET arg == IF given THEN Ref(10) ELSE Undefined
              creds == apiKeyCredential(ContextHeap(options), Str(<<"k">>), Undefined)
              o == CASE fn = "createTestContext" ->
                            createTestContext(ContextHeap(options), arg, process)
                     [] fn = "createTestProviderFetchContext" ->
                            createTestProviderFetchContext(creds.heap, creds.ret.value, arg, process)
                     [] fn = "createTestAgentFetchContext" ->
                            createTestAgentFetchContext(ContextHeap(options), arg, process)
          IN  /\ given \/ options = <<>>
              /\ heap = o.heap
              /\ ret = o.ret
              /\ call = IF fn = "createTestProviderFetchContext"
                        THEN [fn |-> fn, credentials |-> creds.ret.value, options |-> arg]
                        ELSE [fn |-> fn, options |-> arg]

EnvGet ==
    /\ Ready
    /\ \E this \in EnvSources(heap), name \in AuthNames :
           Apply([fn |-> "env.get", this |-> this, name |-> name], envGet(heap, this, name))

ReadText ==
    /\ Ready
    /\ \E this \in FileSources(heap), path \in AuthNames :
           Apply([fn |-> "readText", this |-> this, path |-> path], readText(heap, this, path))

ReadJson ==
    /\ Ready
    /\ \E this \in FileSources(heap), path \in AuthNames :
           Apply([fn |-> "readJson", this |-> this, path |-> path], readJson(heap, this, path))

Exists ==
    /\ Ready
    /\ \E this \in FileSources(heap), path \in AuthNames :
           Apply([fn |-> "exists", this |-> this, path |-> path], exists(heap, this, path))

GetProviderEntry ==
    /\ Ready
    /\ \E this \in OpencodeSources(heap), key \in AuthNames :
           Apply([fn |-> "getProviderEntry", this |-> this, key |-> key],
                 getProviderEntry(heap, this, key))

NextContext ==
    \/ Debug
    \/ Info
    \/ Warn
    \/ Error
    \/ Clear
    \/ Fetch
    \/ StorageGet
    \/ StorageSet
    \/ StorageDelete
    \/ StorageHas
    \/ EnvGet
    \/ ReadText
    \/ ReadJson
    \/ Exists
    \/ GetProviderEntry

SpecContext == InitContext /\ [][NextContext]_vars

(***************************************************************************)
(* Properties of the test contexts.                                        *)
(***************************************************************************)
\* The tables the auth sources of a context read.
EnvTableOf(this) == heap[Scope(heap, this, "envMap").ref]

FileTableOf(this) == heap[Scope(heap, this, "fileMap").ref]

\* The call at position i of hist asks for something that was not
\* configured: a url no mock has, a key the storage does not hold, a path or
\* a variable name its table does not have.
Unconfigured(i) ==
    LET c == hist[i].call
    IN  CASE c.fn = "fetch" -> Join(c.url.str) \notin DOMAIN MockTableOf(c.this)
          [] c.fn \in {"get", "has", "delete"} -> Expected(i) = Null
          [] c.fn \in {"readText", "readJson", "exists"} ->
                 Join(c.path.str) \notin DOMAIN FileTableOf(c.this)
          [] c.fn = "env.get" -> Join(c.name.str) \notin DOMAIN EnvTableOf(c.this)
          [] OTHER -> FALSE

\* C18: no operation of a mock fails for want of data: for a url, key, path
\* or variable name that was not configured, fetch resolves with the default
\* status, storage get resolves to null, has to false and delete to nothing,
\* files.readText and readJson resolve to null, files.exists to false, and
\* env.get returns undefined.
C18_MissingData ==
    \A i \in 1..Len(hist) :
        Unconfigured(i) =>
            LET c == hist[i].call
                r == hist[i].ret
            IN  /\ ~r.threw
                /\ c.fn = "fetch" => heap[r.value.ref].status = DefaultStatusOf(c.this)
                /\ c.fn \in {"get", "readText", "readJson"} => r.value = Null
                /\ c.fn \in {"has", "exists"} => r.value = Bool(FALSE)
                /\ c.fn \in {"delete", "env.get"} => r.value = Undefined

\* C19: the signal of every context the three factories return is not
\* aborted when the context is returned, and is not after any sequence of
\* calls on the logger, the HTTP client, the storage and the auth sources of
\* the context.
C19_SignalNeverAborted ==
    \A r \in DOMAIN heap :
        {"logger", "signal"} \subseteq DOMAIN heap[r] =>
            heap[heap[r].signal.ref].aborted = Bool(FALSE)

C19_Witness ==
    /\ Len(hist) = 2
    /\ hist[1].call.fn = "fetch"
    /\ hist[2].call.fn = "set"
    /\ \E r \in DOMAIN heap :
          /\ "authSources" \in DOMAIN heap[r]
          /\ heap[heap[r].signal.ref].aborted = Bool(FALSE)

(***************************************************************************)
(* readJson over the texts a file can hold: a test context whose files     *)
(* table has one file, read by its path and by paths it does not have.     *)
(***************************************************************************)
JsonChars == {"1", "[", "]", ","}

\* Every text of up to MaxTextLen of these characters, and texts with the
\* other characters of the numbers and of null.
JsonTexts ==
    StringsUpTo(JsonChars, MaxTextLen)
    \cup {NullText, <<"n", "u", "l">>, <<"0">>, <<"0", "1">>, <<"1", "0">>}

InitReadJson ==
    /\ pc = "test"
    /\ now = 0
    /\ hist = <<>>
    /\ \E text \in JsonTexts, process \in Processes :
          LET h == [ContextHeap([files |-> Ref(7)])
                        EXCEPT ![7] = (Join(ConfiguredName) :> Str(text))]
              o == createTestContext(h, Ref(10), process)
          IN  /\ heap = o.heap
              /\ ret = o.ret
              /\ call = [fn |-> "createTestContext", options |-> Ref(10)]

NextReadJson == ReadJson

SpecReadJson == InitReadJson /\ [][NextReadJson]_vars

(***************************************************************************)
(* Properties of readJson.                                                 *)
(***************************************************************************)
RECURSIVE Ones(_)
\* The number written with k ones.
Ones(k) == IF k = 1 THEN 1 ELSE 10 * Ones(k - 1) + 1

ArraysOver(values) == {Array(es) : es \in UNION {[1..k -> values] : k \in 0..2}}

\* The JSON values whose texts are among those tried: every valid JSON text
\* of JsonTexts is the text of one of them.
JsonValues ==
    LET atoms == {Num(Ones(k)) : k \in 1..(MaxTextLen + 1)} \cup {Num(0), Num(10), Null}
        flat == atoms \cup ArraysOver(atoms)
    IN  flat \cup ArraysOver(flat)

ValidTexts == {JSONStringify(v) : v \in JsonValues}

ValueOf(text) == CHOOSE v \in JsonValues : JSONStringify(v) = text

\* C20: readJson(path) never fails its caller: it resolves to null when path
\* is not in the files table, to null when the text stored there is not
\* valid JSON (the empty text included), and to the value the text denotes
\* when it is valid JSON.
C20_ReadJson ==
    \A i \in 1..Len(hist) :
        hist[i].call.fn = "readJson" =>
            LET table == FileTableOf(hist[i].call.this)
                key == Join(hist[i].call.path.str)
            IN  /\ ~hist[i].ret.threw
                /\ hist[i].ret.value =
                       IF key \notin DOMAIN table THEN Null
                       ELSE IF table[key].str \in ValidTexts THEN ValueOf(table[key].str)
                       ELSE Null

C20_Witness ==
    /\ Len(hist) = 2
    /\ hist[1].call.fn = "readJson"
    /\ hist[1].call.path = Str(ConfiguredName)
    /\ FileTableOf(hist[1].call.this)[Join(ConfiguredName)] = Str(<<"[", "1", "1", "]">>)
    /\ hist[1].ret = Return(Array(<<Num(11)>>))
    /\ hist[2].call.fn = "readJson"
    /\ hist[2].call.path = Str(<<"b">>)
    /\ hist[2].ret = Return(Null)

\* C21: the auth sources of a test context read only the tables the caller
\* gave: env.get(name) returns the table's value when name is a key of the
\* env table and undefined otherwise; files.exists(path) is true exactly when
\* path is a key of the files table; files.readText(path) resolves to the
\* table's content for a key and to null for every other path; and
\* opencode.getProviderEntry resolves to null for every key.
C21_AuthSources ==
    \A i \in 1..Len(hist) :
        LET c == hist[i].call
            r == hist[i].ret
        IN  /\ c.fn = "env.get" =>
                  r = Return(IF Join(c.name.str) \in DOMAIN EnvTableOf(c.this)
                             THEN EnvTableOf(c.this)[Join(c.name.str)]
                             ELSE Undefined)
            /\ c.fn = "exists" =>
                  r = Return(Bool(Join(c.path.str) \in DOMAIN FileTableOf(c.this)))
            /\ c.fn = "readText" =>
                  r = Return(IF Join(c.path.str) \in DOMAIN FileTableOf(c.this)
                             THEN FileTableOf(c.this)[Join(c.path.str)]
                             ELSE Null)
            /\ c.fn = "getProviderEntry" => r = Return(Null)

\* The context the factory returned: the last one made.
Context ==
    heap[CHOOSE r \in DOMAIN heap :
             /\ {"logger", "signal"} \subseteq DOMAIN heap[r]
             /\ \A q \in DOMAIN heap : {"logger", "signal"} \subseteq DOMAIN heap[q] => q <= r]

\* The context ctx has the members of one full context for its http, logger,
\* config and signal.
IsProjection(ctx) ==
    \E r \in DOMAIN heap :
        /\ "authSources" \in DOMAIN heap[r]
        /\ \A k \in {"http", "logger", "config", "signal"} : ctx[k] = heap[r][k]

\* The http client of ctx has the httpMocks of the options for its table of
\* mocks, and its config is the config of the options, or an empty object.
IsWired(ctx, options) ==
    LET o == IF options = Undefined THEN <<>> ELSE heap[options.ref]
    IN  /\ MockTableOf(ctx.http) =
               IF "httpMocks" \in DOMAIN o THEN heap[o.httpMocks.ref] ELSE <<>>
        /\ IF "config" \in DOMAIN o THEN ctx.config = o.config
           ELSE heap[ctx.config.ref] = <<>>

\* C22: the narrowed contexts are projections of one full context: the
\* provider fetch context has exactly credentials (the value passed), http,
\* logger, config and signal, the agent fetch context exactly http, logger,
\* config and signal; in both the http client answers the httpMocks of the
\* options and config is the config of the options, or {} when there is none.
C22_Projections ==
    /\ (hist = <<>> /\ call.fn = "createTestProviderFetchContext") =>
           /\ DOMAIN Context = {"credentials", "http", "logger", "config", "signal"}
           /\ Context.credentials = call.credentials
           /\ IsProjection(Context)
           /\ IsWired(Context, call.options)
    /\ (hist = <<>> /\ call.fn = "createTestAgentFetchContext") =>
           /\ DOMAIN Context = {"http", "logger", "config", "signal"}
           /\ IsProjection(Context)
           /\ IsWired(Context, call.options)
    /\ "authSources" \notin DOMAIN Context =>
           \A i \in 1..Len(hist) :
               (/\ hist[i].call.fn = "fetch"
                /\ Join(hist[i].call.url.str) \in DOMAIN MockTableOf(Context.http)) =>
                   /\ hist[i].call.this = Context.http
                   /\ IsCanned(heap[hist[i].ret.value.ref],
                               heap[MockTableOf(Context.http)[Join(hist[i].call.url.str)].ref])

C22_Witness ==
    /\ DOMAIN Context = {"credentials", "http", "logger", "config", "signal"}
    /\ Context.config = Ref(9)
    /\ Len(hist) = 1
    /\ hist[1].call.fn = "fetch"
    /\ hist[1].call.url = Str(UsageUrl)
    /\ heap[hist[1].ret.value.ref].status = Num(200)

(***************************************************************************)
(* The provider plugin of the development guide, built by                  *)
(* createProviderPlugin and tried against a test context as the guide's    *)
(* Testing section does.  Its auth.discover is the guide's, with the       *)
(* message it reports a missing key with held in its scope.                *)
(***************************************************************************)
ReplicateId == <<"r", "e", "p", "l", "i", "c", "a", "t", "e">>

TokenVariable ==
    <<"R", "E", "P", "L", "I", "C", "A", "T", "E", "_", "A", "P", "I", "_",
      "T", "O", "K", "E", "N">>

NoKey == Str(<<"n", "o", " ", "k", "e", "y">>)

\* Of meta, whose members no code of the package reads, the name.
MetaObject == [name |-> Str(<<"R", "e", "p", "l", "i", "c", "a", "t", "e">>)]

CapabilitiesObject ==
    [usageLimits |-> Bool(FALSE), apiRateLimits |-> Bool(TRUE),
     tokenUsage |-> Bool(FALSE), actualCosts |-> Bool(TRUE)]

AuthObject(message) ==
    [discover |-> Fn("discover"), isConfigured |-> Fn("isConfigured")]
    @@ ("[[Scope]]" :> [message |-> message])

\* The definition of the guide; the guide's own has no name.
GuideDef(id, name, version) ==
    MkDef(id, name, version, Str(ProviderType), Undefined)
    @@ [meta |-> Ref(3), capabilities |-> Ref(4), auth |-> Ref(5),
        fetchUsage |-> Fn("fetchUsage")]

\* Mutant of discover: the key found reported without the credential made
\* of it, credentialFound(token).
discover_BareToken(h, this, ctx) ==
    LET token == envGet(h, h[h[ctx.ref].authSources.ref].env, Str(TokenVariable)).ret.value
    IN  IF ~Falsy(token) THEN credentialFound(h, token)
        ELSE credentialMissing(h, Scope(h, this, "message"))

\* auth.discover(ctx)
discover(h, this, ctx) ==
    LET token == envGet(h, h[h[ctx.ref].authSources.ref].env, Str(TokenVariable)).ret.value
        made == apiKeyCredential(h, token, Undefined)
    IN  IF ~Falsy(token) THEN credentialFound(made.heap, made.ret.value)
        ELSE credentialMissing(h, Scope(h, this, "message"))

\* The env tables a test gives its context: no options at all, no
\* variable, another variable, the token, the token set to ''.
GuideEnvs ==
    {Absent, <<>>, [b |-> Str(<<"x">>)],
     (Join(TokenVariable) :> Str(<<"r", "8">>)),
     (Join(TokenVariable) :> Str(<<>>))}

InitGuide ==
    \E id \in SampleIds \cup {Str(ReplicateId)}, name \in SampleNames \cup {MetaObject.name},
       version \in SampleVersions :
        /\ heap = <<PermissionsObject, GuideDef(id, name, version), MetaObject,
                    CapabilitiesObject, AuthObject(NoKey)>>
        /\ call = [fn |-> "createProviderPlugin", def |-> Ref(2)]
        /\ pc = "call"
        /\ ret = Undefined
        /\ now = 0
        /\ hist = <<>>

\* const ctx = createTestContext({ env: { ... } })
CreateTestContext ==
    /\ pc = "done"
    /\ ~ret.threw
    /\ \E env \in GuideEnvs, process \in Processes :
          LET h == IF env = Absent THEN heap
                   ELSE heap \o <<env, [env |-> Ref(Len(heap) + 1)]>>
              options == IF env = Absent THEN Undefined ELSE Ref(Len(h))
              o == createTestContext(h, options, process)
          IN  /\ heap' = o.heap
              /\ ret' = o.ret
              /\ call' = [fn |-> "createTestContext", options |-> options]
              /\ pc' = "test"
              /\ UNCHANGED <<now, hist>>

\* The plugins a factory returned, and the contexts with auth sources.
Plugins(h) == {Ref(r) : r \in {x \in DOMAIN h : {"apiVersion", "auth"} \subseteq DOMAIN h[x]}}

FullContexts(h) == {Ref(r) : r \in {x \in DOMAIN h : "authSources" \in DOMAIN h[x]}}

\* await plugin.auth.discover(ctx)
Discover ==
    /\ Ready
    /\ pc = "test"
    /\ \E plugin \in Plugins(heap), ctx \in FullContexts(heap) :
           Apply([fn |-> "discover", this |-> heap[plugin.ref].auth, ctx |-> ctx],
                 discover(heap, heap[plugin.ref].auth, ctx))

NextGuide ==
    \/ CreateProviderPlugin
    \/ CreateTestContext
    \/ Discover

SpecGuide == InitGuide /\ [][NextGuide]_vars

(***************************************************************************)
(* Properties of the guide's plugin.                                       *)
(***************************************************************************)
\* The env table of the context ctx, and the result object of the call at
\* position i of hist.
EnvOf(ctx) == EnvTableOf(heap[heap[ctx.ref].authSources.ref].env)

ResultAt(i) == heap[hist[i].ret.value.ref]

\* The result is { ok: false, reason: 'missing', message: 'no key' }.
IsMissing(result) ==
    /\ DOMAIN result = {"ok", "reason", "message"}
    /\ result.ok = Bool(FALSE)
    /\ Join(result.reason.str) = "missing"
    /\ result.message = NoKey

\* The result is ok with an apiKey credential that holds value.
IsFound(result, value) ==
    /\ result.ok = Bool(TRUE)
    /\ TypeOf(result.credentials) = "object"
    /\ heap[result.credentials.ref] = [apiKey |-> value, source |-> Str(EnvSource)]

\* C23: the plugin built by createProviderPlugin, its auth.discover invoked
\* with a test context: without the variable in the env table the result is
\* { ok: false, reason: 'missing', message: 'no key' }; with the variable in
\* the env table it is ok with an apiKey credential that holds its value.
C23_Discover ==
    \A i \in 1..Len(hist) :
        hist[i].call.fn = "discover" =>
            /\ ~hist[i].ret.threw
            /\ IF Join(TokenVariable) \in DOMAIN EnvOf(hist[i].call.ctx)
               THEN IsFound(ResultAt(i), EnvOf(hist[i].call.ctx)[Join(TokenVariable)])
               ELSE IsMissing(ResultAt(i))

\* C23 as amended: the variable counts as found when its value is not the
\* empty string; set to '' it is reported missing like a variable not set.
C23_DiscoverNonEmpty ==
    \A i \in 1..Len(hist) :
        hist[i].call.fn = "discover" =>
            /\ ~hist[i].ret.threw
            /\ IF /\ Join(TokenVariable) \in DOMAIN EnvOf(hist[i].call.ctx)
                  /\ EnvOf(hist[i].call.ctx)[Join(TokenVariable)] # Str(<<>>)
               THEN IsFound(ResultAt(i), EnvOf(hist[i].call.ctx)[Join(TokenVariable)])
               ELSE IsMissing(ResultAt(i))

C23_Witness ==
    /\ Len(hist) = 1
    /\ hist[1].call.fn = "discover"
    /\ heap[2].id = Str(ReplicateId)
    /\ EnvOf(hist[1].call.ctx) = (Join(TokenVariable) :> Str(<<"r", "8">>))
    /\ heap[ResultAt(1).credentials.ref].apiKey = Str(<<"r", "8">>)

\* C24: createProviderPlugin accepts the guide's provider example as it is
\* written, with id 'replicate', type 'provider', version '1.0.0', the
\* display name under meta and no name of its own, and returns it with
\* apiVersion added.
C24_GuideExample ==
    (/\ pc = "done"
     /\ call.fn = "createProviderPlugin"
     /\ heap[2] = GuideDef(Str(ReplicateId), Undefined, ValidVersion)) =>
        /\ ~ret.threw
        /\ heap[ret.value.ref] = Spread(heap[2], "apiVersion", Num(CURRENT_API_VERSION))


(***************************************************************************)
(* The order of the validation rules.                                      *)
(***************************************************************************)
\* d.id is a non-empty string.
IdNonEmpty(d) == TypeOf(Get(d, "id")) = "string" /\ Get(d, "id").str # <<>>

\* The message has the field's name in it.
Names(message, field) == \E i \in DOMAIN message : message[i] = field

\* C25: a factory reports the first violated rule in the order id non-empty,
\* id kebab-case, name non-empty, version semver prefix, type discriminator,
\* whatever later rules are violated as well; the message of each error has
\* the name of the field it is about in it.
C25_FirstViolatedRule ==
    pc = "done" =>
        /\ ~IdNonEmpty(Def) => Threw(IdEmptyError) /\ Names(ret.message, "id")
        /\ (IdNonEmpty(Def) /\ ~IdOk(Def))
              => Threw(KebabError(Get(Def, "id").str)) /\ Names(ret.message, "id")
        /\ (IdOk(Def) /\ ~NameOk(Def))
              => Threw(NameEmptyError) /\ Names(ret.message, "name")
        /\ (IdOk(Def) /\ NameOk(Def) /\ ~VersionOk(Def))
              => Threw(SemverError) /\ Names(ret.message, "version")
        /\ (IdOk(Def) /\ NameOk(Def) /\ VersionOk(Def) /\ ~TypeOk(Def, call.fn))
              => /\ ret.threw
                 /\ ret.message \notin {IdEmptyError, NameEmptyError, SemverError}
                 /\ Names(ret.message, "type")
                 /\ Names(ret.message, call.fn \o " requires ")

\* An invalid id on a definition of the wrong type and without a version: the
\* id error is the one reported.
C25_Witness ==
    /\ Threw(KebabError(<<"A">>))
    /\ NameOk(Def)
    /\ ~VersionOk(Def)
    /\ ~TypeOk(Def, call.fn)


(***************************************************************************)
(* The four factories tried on one definition, and what they return handed  *)
(* to the compatibility checks of src/helpers/version.ts.                   *)
(***************************************************************************)
LoadDefs ==
    {MkDef(i, n, v, t, a) : i \in {ValidId, Str(<<"A">>)}, n \in {ValidName, Undefined},
                            v \in {ValidVersion, Undefined}, t \in SampleTypes,
                            a \in {Undefined, Num(1), Num(3)}}

InitLoad ==
    \E d \in LoadDefs :
        /\ heap = <<PermissionsObject, d>>
        /\ call = Undefined
        /\ pc = "test"
        /\ ret = Undefined
        /\ now = 0
        /\ hist = <<>>

\* The calls of fn made so far.
CallsOf(fn) == SelectSeq(hist, LAMBDA c : c.call.fn = fn)

ProviderFactory ==
    /\ CallsOf("createProviderPlugin") = <<>>
    /\ Apply([fn |-> "createProviderPlugin", def |-> Ref(2)],
             createProviderPlugin(heap, Ref(2)))

AgentFactory ==
    /\ CallsOf("createAgentPlugin") = <<>>
    /\ Apply([fn |-> "createAgentPlugin", def |-> Ref(2)],
             createAgentPlugin(heap, Ref(2)))

ThemeFactory ==
    /\ CallsOf("createThemePlugin") = <<>>
    /\ Apply([fn |-> "createThemePlugin", def |-> Ref(2)],
             createThemePlugin(heap, Ref(2)))

NotificationFactory ==
    /\ CallsOf("createNotificationPlugin") = <<>>
    /\ Apply([fn |-> "createNotificationPlugin", def |-> Ref(2)],
             createNotificationPlugin(heap, Ref(2)))

\* The plugins the factories have returned.
ReturnedPlugins ==
    {hist[i].ret.value : i \in {j \in DOMAIN hist : /\ hist[j].call.fn \in Factories
                                                     /\ ~hist[j].ret.threw}}

\* isCompatible(p.apiVersion) on a returned plugin p.
CompatibleCheck ==
    \E p \in ReturnedPlugins :
        /\ CallsOf("isCompatible") = <<>>
        /\ Apply([fn |-> "isCompatible", plugin |-> p,
                  pluginApiVersion |-> Get(heap[p.ref], "apiVersion")],
                 Outcome(Return(isCompatible(Get(heap[p.ref], "apiVersion"))), heap))

\* assertCompatible(p.id, p.apiVersion) on a returned plugin p.
AssertCheck ==
    \E p \in ReturnedPlugins :
        /\ CallsOf("assertCompatible") = <<>>
        /\ Apply([fn |-> "assertCompatible", plugin |-> p,
                  pluginId |-> Get(heap[p.ref], "id"),
                  pluginApiVersion |-> Get(heap[p.ref], "apiVersion")],
                 Outcome(assertCompatible(Get(heap[p.ref], "id"),
                                          Get(heap[p.ref], "apiVersion")), heap))

NextLoad ==
    \/ ProviderFactory
    \/ AgentFactory
    \/ ThemeFactory
    \/ NotificationFactory
    \/ CompatibleCheck
    \/ AssertCheck

SpecLoad == InitLoad /\ [][NextLoad]_vars

\* The factory calls made so far that returned a plugin.
Accepted == SelectSeq(hist, LAMBDA c : c.call.fn \in Factories /\ ~c.ret.threw)

\* C26: of the four factories tried on one definition at most one accepts it;
\* a definition whose type is none of provider, agent, theme, notification is
\* rejected by every one of them; and the plugin a factory returns has the
\* type of that factory's kind.
C26_MutuallyExclusive ==
    /\ Len(Accepted) <= 1
    /\ Get(heap[2], "type") \notin PluginTypes => Accepted = <<>>
    /\ \A i \in DOMAIN Accepted :
          TypeOk(heap[Accepted[i].ret.value.ref], Accepted[i].call.fn)

\* All four factories tried on one definition, and one of them accepted it.
C26_Witness ==
    /\ \A fn \in Factories : CallsOf(fn) # <<>>
    /\ Len(Accepted) = 1
    /\ Accepted[1].call.fn = "createNotificationPlugin"

\* C27: every plugin a factory returns passes the compatibility checks:
\* isCompatible of its apiVersion is true and assertCompatible of its id and
\* apiVersion does not throw.
C27_OutputCompatible ==
    \A i \in DOMAIN hist :
        /\ hist[i].call.fn = "isCompatible" => hist[i].ret = Return(Bool(TRUE))
        /\ hist[i].call.fn = "assertCompatible" => hist[i].ret = Return(Undefined)

\* Both checks made on a plugin whose definition declared a newer apiVersion.
C27_Witness ==
    /\ CallsOf("isCompatible") # <<>>
    /\ CallsOf("assertCompatible") # <<>>
    /\ CallsOf("assertCompatible")[1].call.plugin \in ReturnedPlugins
    /\ Get(heap[2], "apiVersion") = Num(CURRENT_API_VERSION + 1)


(***************************************************************************)
(* The frame of the storage operations.                                    *)
(***************************************************************************)
\* The Map of the storage this, in the heap h.
StoreOf(h, this) == h[Scope(h, this, "store").ref].map

\* The heaps h and g differ at most in what the storage this holds for key.
SameButFor(h, g, this, key) ==
    /\ Len(g) = Len(h)
    /\ \A r \in DOMAIN h : r # Scope(h, this, "store").ref => g[r] = h[r]
    /\ Scope(g, this, "store") = Scope(h, this, "store")
    /\ DOMAIN StoreOf(g, this) \ {key} = DOMAIN StoreOf(h, this) \ {key}
    /\ \A k \in DOMAIN StoreOf(h, this) \ {key} : StoreOf(g, this)[k] = StoreOf(h, this)[k]

\* C28: get(k) resolves to null exactly when has(k) resolves to false, a
\* stored '' being returned as '' and counting as present; get and has change
\* nothing; set(k, v) and delete(k) change nothing but what is held for k; and
\* delete of a key that is not held changes nothing at all.
C28_StorageFrame ==
    [][hist' # hist =>
          LET c == hist'[Len(hist')].call
              r == hist'[Len(hist')].ret
              k == Join(c.key.str)
          IN  /\ c.fn = "get" =>
                    /\ heap' = heap
                    /\ r.value = Null <=> has(heap, c.this, c.key).ret.value = Bool(FALSE)
                    /\ (k \in DOMAIN StoreOf(heap, c.this) /\ StoreOf(heap, c.this)[k] = Str(<<>>))
                          => r.value = Str(<<>>)
              /\ c.fn = "has" =>
                    /\ heap' = heap
                    /\ r.value = Bool(FALSE) <=> get(heap, c.this, c.key).ret.value = Null
              /\ c.fn = "set" => SameButFor(heap, heap', c.this, k)
              /\ c.fn = "delete" =>
                    /\ SameButFor(heap, heap', c.this, k)
                    /\ k \notin DOMAIN StoreOf(heap, c.this) => heap' = heap]_vars

\* '' stored under a and read back as '', then an absent key deleted with a
\* still held.
C28_Witness ==
    /\ Len(hist) = 3
    /\ hist[1].call.fn = "set" /\ hist[1].call.key = Str(<<"a">>) /\ hist[1].call.value = Str(<<>>)
    /\ hist[2].call.fn = "get" /\ hist[2].call.key = Str(<<"a">>) /\ hist[2].ret = Return(Str(<<>>))
    /\ hist[3].call.fn = "delete" /\ hist[3].call.key = Str(<<"b">>)
    /\ DOMAIN StoreOf(heap, hist[3].call.this) = {"a"}


(***************************************************************************)
(* The async methods of the mocks, called without awaiting.  The body of   *)
(* an async function runs at the call up to its first await; the methods   *)
(* of the mocks have none, so the call returns a promise already settled   *)
(* with what the body returned.  The test awaits the promises it holds in  *)
(* any order.                                                              *)
(***************************************************************************)
MaxStarted == 2

\* The promise an async function returns when its body has run to the end.
Async(o) ==
    Outcome(Return(Ref(Len(o.heap) + 1)),
            Append(o.heap, IF o.ret.threw
                           THEN [promise |-> "rejected", reason |-> o.ret.message]
                           ELSE [promise |-> "fulfilled", value |-> o.ret.value]))

AsyncKeys == {Str(<<"a">>), Str(<<"b">>)}

AsyncUrls == {Str(UsageUrl), Str(<<"/", "U">>)}

\* What the test starts from: a client over the two mocks and a storage made
\* from table.
AsyncHeap(table) ==
    LET h == <<PostInit, CustomHeaders, UsageMock, EmptyMock,
               (Join(UsageUrl) :> Ref(3)) @@ (Join(EmptyUrl) :> Ref(4)),
               [mocks |-> Ref(5)], table>>
    IN  createMockStorage(createMockHttpClient(h, Ref(6)).heap, Ref(7)).heap

InitAsync ==
    /\ pc = "test"
    /\ now = 0
    /\ hist = <<>>
    /\ ret = Undefined
    /\ call = Undefined
    /\ \E table \in InitialTables : heap = AsyncHeap(table)

\* The calls started so far, awaited or not, in the order they were made.
Started == SelectSeq(hist, LAMBDA c : c.call.fn # "await")

GetAsync ==
    /\ Len(Started) < MaxStarted
    /\ \E this \in Storages(heap), key \in AsyncKeys :
           Apply([fn |-> "get", this |-> this, key |-> key], Async(get(heap, this, key)))

SetAsync ==
    /\ Len(Started) < MaxStarted
    /\ \E this \in Storages(heap), key \in AsyncKeys :
           Apply([fn |-> "set", this |-> this, key |-> key, value |-> Str(<<"x">>)],
                 Async(set(heap, this, key, Str(<<"x">>))))

DeleteAsync ==
    /\ Len(Started) < MaxStarted
    /\ \E this \in Storages(heap), key \in AsyncKeys :
           Apply([fn |-> "delete", this |-> this, key |-> key],
                 Async(delete(heap, this, key)))

HasAsync ==
    /\ Len(Started) < MaxStarted
    /\ \E this \in Storages(heap), key \in AsyncKeys :
           Apply([fn |-> "has", this |-> this, key |-> key], Async(has(heap, this, key)))

FetchAsync ==
    /\ Len(Started) < MaxStarted
    /\ \E this \in HttpClients(heap), url \in AsyncUrls :
           Apply([fn |-> "fetch", this |-> this, url |-> url, init |-> Undefined],
                 Async(fetch(heap, this, url, Undefined)))

\* The promises the test holds and has not awaited yet.
Unawaited ==
    {Started[i].ret.value : i \in DOMAIN Started}
        \ {hist[i].call.promise : i \in {j \in DOMAIN hist : hist[j].call.fn = "await"}}

\* await promise: the value the promise was fulfilled with.
Await ==
    \E promise \in Unawaited :
        /\ heap[promise.ref].promise = "fulfilled"
        /\ Apply([fn |-> "await", promise |-> promise],
                 Outcome(Return(heap[promise.ref].value), heap))

NextAsync ==
    \/ GetAsync
    \/ SetAsync
    \/ DeleteAsync
    \/ HasAsync
    \/ FetchAsync
    \/ Await

SpecAsync == InitAsync /\ [][NextAsync]_vars

\* What the storage holds for key once the first n started calls have been
\* executed one at a time: the value of the last set among them, nothing
\* after a delete, what the initial table has before both.
Sees(n, key) ==
    LET writes == {j \in 1..n : /\ Started[j].call.fn \in {"set", "delete"}
                                /\ Started[j].call.key = key}
    IN  IF writes = {}
        THEN IF Join(key.str) \in DOMAIN heap[7] THEN heap[7][Join(key.str)] ELSE Null
        ELSE IF Started[Latest(writes)].call.fn = "set"
        THEN Started[Latest(writes)].call.value
        ELSE Null

\* The result of the i-th started call when the calls are executed one at a
\* time in the order they were made; of a fetch, its status.
OneAtATime(i) ==
    LET c == Started[i].call
    IN  CASE c.fn = "get" -> Sees(i - 1, c.key)
          [] c.fn = "has" -> Bool(Sees(i - 1, c.key) # Null)
          [] c.fn \in {"set", "delete"} -> Undefined
          [] c.fn = "fetch" -> IF c.url = Str(UsageUrl) THEN Num(200) ELSE Num(404)

\* What the promise of the i-th started call holds; of a fetch, the status.
Settled(i) ==
    LET value == heap[Started[i].ret.value.ref].value
    IN  IF Started[i].call.fn = "fetch" THEN heap[value.ref].status ELSE value

\* C29: the async methods of the mocks take effect at the call: of calls
\* started without awaiting each other, every promise is settled when the
\* call returns, with the result of executing the calls one at a time in the
\* order they were made; the store and the call records are those of that
\* execution; and each await, in whatever order, resolves to that result.
C29_EffectAtInvocation ==
    /\ \A i \in DOMAIN Started :
          /\ heap[Started[i].ret.value.ref].promise = "fulfilled"
          /\ Settled(i) = OneAtATime(i)
    /\ \A this \in Storages(heap), key \in AsyncKeys :
          LET k == Join(key.str)
          IN  IF Sees(Len(Started), key) = Null THEN k \notin DOMAIN StoreOf(heap, this)
              ELSE k \in DOMAIN StoreOf(heap, this)
                   /\ StoreOf(heap, this)[k] = Sees(Len(Started), key)
    /\ \A this \in HttpClients(heap) :
          LET fetched == SelectSeq(Started, LAMBDA c : c.call.fn = "fetch")
          IN  /\ Len(HttpCallsOf(this)) = Len(fetched)
              /\ \A i \in DOMAIN fetched : HttpCallsOf(this)[i].url = fetched[i].call.url
    /\ \A j \in DOMAIN hist :
          hist[j].call.fn = "await" =>
              \E i \in DOMAIN Started :
                  /\ Started[i].ret.value = hist[j].call.promise
                  /\ hist[j].ret.value = heap[Started[i].ret.value.ref].value
                  /\ Started[i].call.fn # "fetch" => hist[j].ret.value = OneAtATime(i)

\* A set and a get of the same key started in a row, and then awaited last
\* to first: the get resolves to the value set.
C29_Witness ==
    /\ Len(hist) = 4
    /\ hist[1].call.fn = "set" /\ hist[1].call.key = Str(<<"b">>)
    /\ hist[2].call.fn = "get" /\ hist[2].call.key = Str(<<"b">>)
    /\ hist[3].call.fn = "await" /\ hist[3].call.promise = hist[2].ret.value
    /\ hist[3].ret = Return(Str(<<"x">>))
    /\ hist[4].call.fn = "await" /\ hist[4].call.promise = hist[1].ret.value
    /\ heap[7] = <<>>


(***************************************************************************)
(* Two test contexts made from one options object, and the calls of a test *)
(* that holds both.                                                        *)
(***************************************************************************)
InitBoth ==
    /\ pc = "test"
    /\ now = 0
    /\ hist = <<>>
    /\ \E options \in ContextOptions, process \in Processes :
          LET first == createTestContext(ContextHeap(options), Ref(10), process)
              second == createTestContext(first.heap, Ref(10), process)
          IN  /\ heap = second.heap
              /\ ret = second.ret
              /\ call = [fn |-> "createTestContext", options |-> Ref(10)]

\* The objects of the heap h that have the method name, held or not.
MocksWith(h, name) == {Ref(r) : r \in {x \in DOMAIN h : name \in DOMAIN h[x]}}

InfoOnEither ==
    /\ Ready
    /\ \E this \in MocksWith(heap, "clear"), message \in LogMessages :
           Apply([fn |-> "info", this |-> this, message |-> message, data |-> Undefined],
                 info(heap, this, message, Undefined))

ClearEither ==
    /\ Ready
    /\ \E this \in MocksWith(heap, "clear") :
           Apply([fn |-> "clear", this |-> this], clear(heap, this))

FetchOnEither ==
    /\ Ready
    /\ \E this \in MocksWith(heap, "fetch"), url \in AsyncUrls :
           Apply([fn |-> "fetch", this |-> this, url |-> url, init |-> Undefined],
                 fetch(heap, this, url, Undefined))

SetOnEither ==
    /\ Ready
    /\ \E this \in MocksWith(heap, "store"), key \in AsyncKeys, value \in StorageValues :
           Apply([fn |-> "set", this |-> this, key |-> key, value |-> value],
                 set(heap, this, key, value))

DeleteOnEither ==
    /\ Ready
    /\ \E this \in MocksWith(heap, "store"), key \in AsyncKeys :
           Apply([fn |-> "delete", this |-> this, key |-> key], delete(heap, this, key))

NextBoth ==
    \/ InfoOnEither
    \/ ClearEither
    \/ FetchOnEither
    \/ SetOnEither
    \/ DeleteOnEither

SpecBoth == InitBoth /\ [][NextBoth]_vars

\* What the storage this holds for key by the calls made on it alone.
HeldBy(this, key) ==
    LET writes == WritesBefore(Len(hist) + 1, this, key)
    IN  IF writes = {}
        THEN IF Join(key.str) \in DOMAIN InitialTableOf(this)
             THEN InitialTableOf(this)[Join(key.str)]
             ELSE Null
        ELSE IF hist[Latest(writes)].call.fn = "set"
        THEN hist[Latest(writes)].call.value
        ELSE Null

\* C30: the mocks are isolated from each other: of two contexts made from
\* the same options object each has a logger, a client and a storage of its
\* own, the entries, the call records and the stored keys of each being those
\* of the calls made on it alone; and no call changes the tables of the caller,
\* the initial table of the storage among them.
C30_Isolated ==
    /\ Cardinality(MocksWith(heap, "clear")) = 2
    /\ Cardinality(MocksWith(heap, "fetch")) = 2
    /\ Cardinality(MocksWith(heap, "store")) = 2
    /\ \A this \in MocksWith(heap, "clear") :
          LET logged == SinceLastClear(CallsOn(this))
          IN  /\ Len(EntriesOf(this)) = Len(logged)
              /\ \A i \in DOMAIN logged : EntriesOf(this)[i].message = logged[i].call.message
    /\ \A this \in MocksWith(heap, "fetch") :
          /\ Len(HttpCallsOf(this)) = Len(CallsOn(this))
          /\ \A i \in DOMAIN CallsOn(this) : HttpCallsOf(this)[i].url = CallsOn(this)[i].call.url
    /\ \A this \in MocksWith(heap, "store"), key \in StorageKeys :
          LET k == Join(key.str)
          IN  IF HeldBy(this, key) = Null THEN k \notin DOMAIN StoreOf(heap, this)
              ELSE k \in DOMAIN StoreOf(heap, this) /\ StoreOf(heap, this)[k] = HeldBy(this, key)
    /\ SubSeq(heap, 1, 10) = ContextHeap(heap[10])

\* The key of the initial table overwritten in the storage of one context
\* and a message logged on the logger of the other: the second storage reads
\* as the table, which is as the caller made it.
C30_Witness ==
    /\ Len(hist) = 2
    /\ hist[1].call.fn = "set" /\ hist[1].call.key = Str(ConfiguredName)
    /\ hist[1].call.value = Str(<<"x">>)
    /\ hist[2].call.fn = "info"
    /\ heap[8] = StorageTable
    /\ "storage" \in DOMAIN heap[10]
    /\ \E other \in MocksWith(heap, "store") \ {hist[1].call.this} :
          StoreOf(heap, other) = StorageTable
    /\ \E other \in MocksWith(heap, "clear") \ {hist[2].call.this} : EntriesOf(other) = <<>>

====
